---- MODULE Spec2Model ----
(***************************************************************************)
(* Model of the rotheca dynamic binary translator's cache subsystem:       *)
(*   - PersistenceManager (src/cache-persistence.h): a foreground thread   *)
(*     and one worker thread sharing a mutex-guarded job queue;            *)
(*   - TranslationCache (src/cache.h): the tier-1 list and the tier-2      *)
(*     cache file.                                                         *)
(* Each subsystem has its own specification over the shared variables; the *)
(* other subsystem's variables stay at their initial values.               *)
(***************************************************************************)
EXTENDS Integers, Sequences, FiniteSets, TLC

\* find_or_translate_block calls in a run of the facade over the cache.
MaxFinds == 3
\* The readings of system_clock during one load_binary call: 0..MaxClock.
MaxClock == 2
\* The longest binary passed to load_binary, in bytes.
MaxBinaryLen == 2

\* ---------------------------------------------------------------- bounds
\* Number of queue_write calls the foreground thread makes in one run.
MaxJobs == 3
\* Number of lookup() calls in one run of the cache.
MaxLookups == 2
\* Number of lookup() calls in one hit-then-promote run.
MaxPromoLookups == 4
\* Words of host arena (the source allocates 1 MiB).
ArenaSize == 4
\* Tier-1 capacity (MAX_L1_CACHE_ENTRIES, 1024 in src/cache.h:79).
MAX_L1_CACHE_ENTRIES == 2
\* An entry is hot above this many accesses (10 in src/cache.h:127).
HOT_THRESHOLD == 1
\* Guest memory in blocks of RIP_STEP bytes (1 MiB of bytes in the source).
GuestSlots == 3
\* Number of run_x86_program calls on one translator.
MaxRuns == 2
\* Dispatches between two checkpoints (100 in src/rotheca.h:256).
CHECKPOINT_EVERY == 2
\* Host words a block is translated into at most (TRANSLATION_BLOCK_SIZE / 4,
\* 1024 in src/rotheca.h:357).
MAX_BLOCK_WORDS == 3
\* .cache files in the cache directory
MaxFiles == 3
\* Bytes in a slice handed to the decoder
MaxCodeLen == 6
\* Bytes in a slice handed to the block analyser
MaxBlockLen == 5
\* Rules in a translation table read from a file
MaxRules == 3
\* Signatures in the signature database
MaxSigs == 2
\* Bytes in a code variant, and variants in a list handed to generate_mask
MaxVarLen == 2
MaxVariants == 3
\* identify_patterns: the least pattern length (16 in the source), bytes in a
\* block and blocks in a call
min_pattern_length == 2
MaxPatBlock == 4
MaxBlocks == 3
\* Bytes hashed, and XXH64_update calls after a reset
MaxHashLen == 70
MaxChunks == 4

\* ------------------------------------------------ persistence: state
VARIABLES
    job_queue,          \* std::queue<WriteCacheJob>, front first
    queue_mutex,        \* owner of queue_mutex: "free", "fg" or "worker"
    should_terminate,   \* std::atomic<bool>
    cv_waiting,         \* TRUE while the worker is blocked inside condition.wait
    wpc,                \* worker thread position in worker_function
    wjob,               \* worker_function's local `job`
    wsuccess,           \* write_to_file's result for the job in flight
    fpc,                \* foreground thread position
    in_dtor,            \* TRUE once ~PersistenceManager has been entered
    promise_set,        \* flush()'s done_promise has a value
    files,              \* file system: path -> byte sequence, or Absent
    completed_jobs,     \* std::atomic<size_t>
    failed_jobs,        \* std::atomic<size_t>
    submitted,          \* history: jobs accepted by queue_write, in order
    wlog,               \* history: <<"start"|"end", job id>> of file writes
    cb_log,             \* history: <<job id, success>> of callbacks fired
    flush_covered       \* history: jobs submitted before the last flush() that returned

pmVars == <<job_queue, queue_mutex, should_terminate, cv_waiting, wpc, wjob,
            wsuccess, fpc, in_dtor, promise_set, files, completed_jobs,
            failed_jobs, submitted, wlog, cb_log, flush_covered>>

\* ------------------------------------------------ cache: state
VARIABLES
    l1_cache,           \* std::vector<EnhancedTranslationEntry>, MRU first
    cache_file,         \* the tier-2 file binary_cache_map names for BinaryId
    arm_memory,         \* the host arena, in 32-bit words
    next_arm_offset,    \* the arena cursor
    l1_hits,            \* statistics
    l2_hits,
    misses,
    last,               \* the last cache call: its arguments, its result, facts
                        \* about the state it started from
    stored_at,          \* history: key -> where store() last put it, while it
                        \* has been neither evicted nor cleared since
    ins_log,            \* history: the keys inserted so far, in order, while
                        \* every call has inserted a fresh key or changed nothing
    reaccessed,         \* history: a key was hit or inserted again, or tier 1
                        \* was cleared
    corrupted,          \* history: header field damaged since the last checkpoint
    lookups,            \* history: number of lookup() calls
    promo               \* history: how far the last calls match the sequence
                        \* lookup, store, lookup, checkpoint, clear, lookup,
                        \* lookup on one block (stage 0: no match)

cacheVars == <<l1_cache, cache_file, arm_memory, next_arm_offset, l1_hits, l2_hits,
               misses, last, stored_at, ins_log, reaccessed, corrupted, lookups,
               promo>>

\* ------------------------------------------------ translator: state
VARIABLES
    tpc,                    \* where run_x86_program stands ("idle": not running)
    rip,                    \* cpu_state.rip
    entry_point,            \* arguments of the current run_x86_program call
    prog_size,              \* its size argument
    x86_memory,             \* guest memory, one block per RIP_STEP bytes
    current_binary_id,
    tr_entry,               \* what find_or_translate_block returned
    execution_count,        \* the member map: address -> dispatches
    static_execution_count, \* the static local counter of the run loop
    dispatch_log,           \* history: the addresses dispatched, in order
    ckpt_log,               \* history: the dispatch count at each checkpoint_cache
    oob,                    \* history: host code was written outside the arena
    runs                    \* history: number of run_x86_program calls

trVars == <<tpc, rip, entry_point, prog_size, x86_memory, current_binary_id, tr_entry,
            execution_count, static_execution_count, dispatch_log, ckpt_log, oob,
            runs>>

\* ------------------------------------------------ lookup on a second thread: state
VARIABLES
    lpc,                \* where the thread stands inside lookup() ("idle": no call)
    lreq,               \* the block its lookup() call is about
    lsnap,              \* lookup_l2_cache's locals: header, entries, `it`, arm_code
    ckpt_file           \* history: the file as the last checkpoint() wrote it

lkVars == <<lpc, lreq, lsnap, ckpt_file>>

\* ------------------------------------------------ maintenance: state
VARIABLES
    cache_dir,          \* the .cache files in cache_directory: name, size, time
    dir_before,         \* history: cache_dir when the last pass started, if no
                        \* file was created since
    removed             \* history: the files that pass removed, in order

mtVars == <<cache_dir, dir_before, removed>>

\* ------------------------------------------------ decoder: state
VARIABLES
    dc_args,            \* the last decoder call: function, byte slice, offset, rules
    dc_ret              \* what it returned

dcVars == <<dc_args, dc_ret>>

\* ------------------------------------------------ signatures: state
VARIABLES
    signature_db,       \* unordered_map: fingerprint -> BlockSignature
    match_cache,        \* unordered_map: block fingerprint -> signature fingerprint
    sg_last             \* the last SignatureManager call and its result

sgVars == <<signature_db, match_cache, sg_last>>

\* ------------------------------------------------ hash: state
VARIABLES
    xxh_state,          \* XXH64_state_t
    xxh_input,          \* history: the bytes passed to XXH64_update since the reset
    xxh_seed            \* history: the seed of the reset

hsVars == <<xxh_state, xxh_input, xxh_seed>>

fnVars == <<dcVars, sgVars, hsVars>>

\* The state of persistence, cache, translator, lookup thread and directory.
progVars == <<pmVars, cacheVars, trVars, lkVars, mtVars>>

auxVars == <<lkVars, mtVars, fnVars>>

vars == <<pmVars, cacheVars, trVars, auxVars>>

Absent == <<-1>>

\* Paths a job may name. "d" stands for a path that cannot be opened for
\* writing (an existing directory), so write_to_file fails on it.
GoodPath == "f"
BadPath == "d"
\* A path that opens, and on which the stream is bad after write() (a full
\* device).
FullPath == "n"
\* "cache/" + current_binary_id + ".cache", the file checkpoint_cache names.
CachePath == "c"

\* The argument tuples queue_write is called with.
JobInputs ==
    { [cache_file |-> GoodPath, data |-> <<97>>, offset |-> 0, callback |-> "none"],
      [cache_file |-> GoodPath, data |-> <<98>>, offset |-> 0, callback |-> "user"],
      [cache_file |-> GoodPath, data |-> <<99>>, offset |-> 1, callback |-> "none"],
      [cache_file |-> BadPath,  data |-> <<97>>, offset |-> 0, callback |-> "user"],
      [cache_file |-> FullPath, data |-> <<97>>, offset |-> 0, callback |-> "user"] }

\* A default-constructed WriteCacheJob (empty path, null callback).
WriteCacheJob ==
    [id |-> 0, cache_file |-> "", data |-> <<>>, offset |-> 0, callback |-> "none"]

Range(s) == { s[i] : i \in 1..Len(s) }

\* ------------------------------------------------ persistence: helpers
\* job_queue.front() followed by job_queue.pop().
DequeueBack(q) == [job |-> q[Len(q)], rest |-> SubSeq(q, 1, Len(q) - 1)]
Dequeue(q) == [job |-> Head(q), rest |-> Tail(q)]

\* A notification that releases nobody.
NotifyNobody == cv_waiting' = cv_waiting

\* condition.notify_one(): a blocked worker is released, otherwise nothing.
NotifyOne == cv_waiting' = FALSE

\* The wait predicate of condition.wait in worker_function.
WaitPredicate == job_queue # <<>> \/ should_terminate

Zeros(n) == [i \in 1..n |-> 0]

\* Opening the file in write_to_file: offset 0 truncates; offset > 0 opens
\* an existing file for update and creates an empty one otherwise.
OpenForWrite(content, offset) ==
    IF offset > 0 /\ content # Absent THEN content ELSE <<>>

\* A write that cuts the file off behind the bytes it wrote.
SeekWriteCutting(content, data, offset) ==
    LET padded == IF Len(content) < offset
                  THEN content \o Zeros(offset - Len(content))
                  ELSE content
    IN  SubSeq(padded, 1, offset) \o data

\* seekp(offset) then write(data) on an open file holding `content`.
SeekWrite(content, data, offset) ==
    LET padded == IF Len(content) < offset
                  THEN content \o Zeros(offset - Len(content))
                  ELSE content
        after == offset + Len(data)
    IN  SubSeq(padded, 1, offset) \o data \o
        (IF Len(padded) > after THEN SubSeq(padded, after + 1, Len(padded)) ELSE <<>>)

\* ------------------------------------------------ persistence: Init
PMVarsInit ==
    /\ job_queue = <<>>
    /\ queue_mutex = "free"
    /\ should_terminate = FALSE
    /\ cv_waiting = FALSE
    /\ wpc = "loop"
    /\ wjob = WriteCacheJob
    /\ wsuccess = FALSE
    /\ fpc = "idle"
    /\ in_dtor = FALSE
    /\ promise_set = FALSE
    /\ files = [p \in {GoodPath, BadPath, FullPath, CachePath} |-> Absent]
    /\ completed_jobs = 0
    /\ failed_jobs = 0
    /\ submitted = <<>>
    /\ wlog = <<>>
    /\ cb_log = <<>>
    /\ flush_covered = 0

\* ------------------------------------------------ persistence: foreground
\* queue_write: build the job, push it under the lock.
QueueWriteCall(in) ==
    /\ fpc = "idle"
    /\ queue_mutex = "free"
    /\ LET job == [id |-> Len(submitted) + 1, cache_file |-> in.cache_file,
                   data |-> in.data, offset |-> in.offset, callback |-> in.callback]
       IN  /\ job_queue' = Append(job_queue, job)
           /\ submitted' = Append(submitted, job)
    /\ fpc' = "qw_notify"
    /\ UNCHANGED <<cacheVars, auxVars>>
    /\ UNCHANGED <<queue_mutex, should_terminate, cv_waiting, wpc, wjob, wsuccess,
                   in_dtor, promise_set, files, completed_jobs, failed_jobs,
                   wlog, cb_log, flush_covered>>

\* A queue_write call of the persistence runs, which make MaxJobs of them.
QueueWrite(in) ==
    /\ Len(submitted) < MaxJobs
    /\ QueueWriteCall(in)
    /\ UNCHANGED trVars

\* queue_write: condition.notify_one() after the lock is released.
QueueWriteNotify ==
    /\ fpc = "qw_notify"
    /\ NotifyOne
    /\ fpc' = "idle"
    /\ UNCHANGED <<cacheVars, trVars, auxVars>>
    /\ UNCHANGED <<job_queue, queue_mutex, should_terminate, wpc, wjob, wsuccess,
                   in_dtor, promise_set, files, completed_jobs, failed_jobs,
                   submitted, wlog, cb_log, flush_covered>>

\* flush(): take the lock; return at once on an empty queue, otherwise push
\* the sentinel job (empty path, callback completing done_promise) and unlock.
FlushLock(dtor) ==
    /\ fpc = "idle"
    /\ queue_mutex = "free"
    /\ in_dtor' = dtor
    /\ IF job_queue = <<>>
       THEN /\ flush_covered' = Len(submitted)
            /\ fpc' = IF dtor THEN "dt_term" ELSE "idle"
            /\ UNCHANGED <<job_queue, promise_set>>
       ELSE /\ job_queue' = Append(job_queue, [WriteCacheJob EXCEPT !.callback = "flush"])
            /\ promise_set' = FALSE
            /\ fpc' = "fl_notify"
            /\ UNCHANGED flush_covered
    /\ UNCHANGED <<cacheVars, auxVars>>
    /\ UNCHANGED <<queue_mutex, should_terminate, cv_waiting, wpc, wjob, wsuccess,
                   files, completed_jobs, failed_jobs, submitted, wlog, cb_log>>

Flush == FlushLock(FALSE) /\ UNCHANGED trVars

\* ~PersistenceManager begins with flush().
Destroy == FlushLock(TRUE) /\ UNCHANGED trVars

\* flush(): condition.notify_one() after posting the sentinel.
FlushNotify ==
    /\ fpc = "fl_notify"
    /\ NotifyOne
    /\ fpc' = "fl_wait"
    /\ UNCHANGED <<cacheVars, trVars, auxVars>>
    /\ UNCHANGED <<job_queue, queue_mutex, should_terminate, wpc, wjob, wsuccess,
                   in_dtor, promise_set, files, completed_jobs, failed_jobs,
                   submitted, wlog, cb_log, flush_covered>>

\* ~PersistenceManager: should_terminate = true (no lock held).
DestroySetTerminate ==
    /\ fpc = "dt_term"
    /\ should_terminate' = TRUE
    /\ fpc' = "dt_notify"
    /\ UNCHANGED <<cacheVars, trVars, auxVars>>
    /\ UNCHANGED <<job_queue, queue_mutex, cv_waiting, wpc, wjob, wsuccess,
                   in_dtor, promise_set, files, completed_jobs, failed_jobs,
                   submitted, wlog, cb_log, flush_covered>>

\* ~PersistenceManager: condition.notify_one().
DestroyNotify ==
    /\ fpc = "dt_notify"
    /\ NotifyOne
    /\ fpc' = "dt_join"
    /\ UNCHANGED <<cacheVars, trVars, auxVars>>
    /\ UNCHANGED <<job_queue, queue_mutex, should_terminate, wpc, wjob, wsuccess,
                   in_dtor, promise_set, files, completed_jobs, failed_jobs,
                   submitted, wlog, cb_log, flush_covered>>

\* The foreground's two blocking waits returning: done_future.wait() in
\* flush() once the promise has a value, worker_thread.join() in the
\* destructor once the worker has left worker_function.
ForegroundUnblock ==
    /\ fpc \in {"fl_wait", "dt_join"}
    /\ IF fpc = "fl_wait"
       THEN /\ promise_set
            /\ flush_covered' = Len(submitted)
            /\ fpc' = IF in_dtor THEN "dt_term" ELSE "idle"
       ELSE /\ wpc = "exited"
            /\ fpc' = "dead"
            /\ UNCHANGED flush_covered
    /\ UNCHANGED <<cacheVars, trVars, auxVars>>
    /\ UNCHANGED <<job_queue, queue_mutex, should_terminate, cv_waiting, wpc, wjob,
                   wsuccess, in_dtor, promise_set, files, completed_jobs,
                   failed_jobs, submitted, wlog, cb_log>>

\* ------------------------------------------------ persistence: worker
\* while (!should_terminate), then a fresh local job.
WorkerLoop ==
    /\ wpc = "loop"
    /\ wpc' = IF should_terminate THEN "exited" ELSE "lock"
    /\ wjob' = WriteCacheJob
    /\ UNCHANGED <<cacheVars, trVars, auxVars>>
    /\ UNCHANGED <<job_queue, queue_mutex, should_terminate, cv_waiting, wsuccess,
                   fpc, in_dtor, promise_set, files, completed_jobs, failed_jobs,
                   submitted, wlog, cb_log, flush_covered>>

\* unique_lock construction, and re-acquisition when a wait is woken.
WorkerLock ==
    /\ \/ wpc = "lock"
       \/ wpc = "blocked" /\ ~cv_waiting
    /\ queue_mutex = "free"
    /\ queue_mutex' = "worker"
    /\ wpc' = "pred"
    /\ UNCHANGED <<cacheVars, trVars, auxVars>>
    /\ UNCHANGED <<job_queue, should_terminate, cv_waiting, wjob, wsuccess,
                   fpc, in_dtor, promise_set, files, completed_jobs, failed_jobs,
                   submitted, wlog, cb_log, flush_covered>>

\* condition.wait(lock, pred): evaluate the predicate with the lock held.
WorkerPredicate ==
    /\ wpc = "pred"
    /\ wpc' = IF WaitPredicate THEN "locked" ELSE "block"
    /\ UNCHANGED <<cacheVars, trVars, auxVars>>
    /\ UNCHANGED <<job_queue, queue_mutex, should_terminate, cv_waiting, wjob,
                   wsuccess, fpc, in_dtor, promise_set, files, completed_jobs,
                   failed_jobs, submitted, wlog, cb_log, flush_covered>>

\* condition.wait: the predicate was false; release the lock and block.
WorkerBlock ==
    /\ wpc = "block"
    /\ queue_mutex' = "free"
    /\ cv_waiting' = TRUE
    /\ wpc' = "blocked"
    /\ UNCHANGED <<cacheVars, trVars, auxVars>>
    /\ UNCHANGED <<job_queue, should_terminate, wjob, wsuccess,
                   fpc, in_dtor, promise_set, files, completed_jobs, failed_jobs,
                   submitted, wlog, cb_log, flush_covered>>

\* A spurious wake-up, which condition_variable::wait permits.
WorkerSpuriousWake ==
    /\ wpc = "blocked"
    /\ cv_waiting
    /\ cv_waiting' = FALSE
    /\ UNCHANGED <<cacheVars, trVars, auxVars>>
    /\ UNCHANGED <<job_queue, queue_mutex, should_terminate, wpc, wjob, wsuccess,
                   fpc, in_dtor, promise_set, files, completed_jobs, failed_jobs,
                   submitted, wlog, cb_log, flush_covered>>

\* After the wait: break on termination with an empty queue, otherwise pop
\* the front job; the lock is released at the end of the block. A job with an
\* empty path is skipped whole (no write, no counter, no callback).
WorkerPop ==
    /\ wpc = "locked"
    /\ queue_mutex' = "free"
    /\ IF should_terminate /\ job_queue = <<>>
       THEN /\ wpc' = "exited"
            /\ UNCHANGED <<job_queue, wjob>>
       ELSE /\ job_queue' = Dequeue(job_queue).rest
            /\ wjob' = Dequeue(job_queue).job
            /\ wpc' = IF Dequeue(job_queue).job.cache_file # "" THEN "open" ELSE "loop"
    /\ UNCHANGED <<cacheVars, trVars, auxVars>>
    /\ UNCHANGED <<should_terminate, cv_waiting, wsuccess,
                   fpc, in_dtor, promise_set, files, completed_jobs, failed_jobs,
                   submitted, wlog, cb_log, flush_covered>>

\* write_to_file: open the file (truncating or creating it as the mode says).
WorkerOpen ==
    /\ wpc = "open"
    /\ IF wjob.cache_file = BadPath
       THEN /\ wsuccess' = FALSE
            /\ wlog' = wlog \o << <<"start", wjob.id>>, <<"end", wjob.id>> >>
            /\ wpc' = "finish"
            /\ UNCHANGED files
       ELSE /\ files' = [files EXCEPT ![wjob.cache_file] = OpenForWrite(@, wjob.offset)]
            /\ wlog' = Append(wlog, <<"start", wjob.id>>)
            /\ wpc' = "write"
            /\ UNCHANGED wsuccess
    /\ UNCHANGED <<cacheVars, trVars, auxVars>>
    /\ UNCHANGED <<job_queue, queue_mutex, should_terminate, cv_waiting, wjob,
                   fpc, in_dtor, promise_set, completed_jobs, failed_jobs,
                   submitted, cb_log, flush_covered>>

\* write_to_file: seekp(offset), write(data), the test of the stream, close.
WorkerWrite ==
    /\ wpc = "write"
    /\ IF wjob.cache_file = FullPath
       THEN /\ wsuccess' = FALSE
            /\ UNCHANGED files
       ELSE /\ files' = [files EXCEPT ![wjob.cache_file] =
                            SeekWrite(@, wjob.data, wjob.offset)]
            /\ wsuccess' = TRUE
    /\ wlog' = Append(wlog, <<"end", wjob.id>>)
    /\ wpc' = "finish"
    /\ UNCHANGED <<cacheVars, trVars, auxVars>>
    /\ UNCHANGED <<job_queue, queue_mutex, should_terminate, cv_waiting, wjob,
                   fpc, in_dtor, promise_set, completed_jobs, failed_jobs,
                   submitted, cb_log, flush_covered>>

\* A worker that counts every job as completed, whatever write_to_file
\* returned.
WorkerFinishAlwaysCompleted ==
    /\ wpc = "finish"
    /\ completed_jobs' = completed_jobs + 1
    /\ promise_set' = IF wjob.callback = "flush" THEN TRUE ELSE promise_set
    /\ cb_log' = IF wjob.callback = "user" THEN Append(cb_log, <<wjob.id, wsuccess>>)
                 ELSE cb_log
    /\ wpc' = "loop"
    /\ UNCHANGED <<cacheVars, trVars, auxVars>>
    /\ UNCHANGED <<job_queue, queue_mutex, should_terminate, cv_waiting, wjob,
                   wsuccess, fpc, in_dtor, files, submitted, wlog, flush_covered,
                   failed_jobs>>

\* Count the job, fire its callback; the hourly maintenance check follows
\* (it removes files only above 1 GiB in total, which no file here reaches).
WorkerFinish ==
    /\ wpc = "finish"
    /\ completed_jobs' = IF wsuccess THEN completed_jobs + 1 ELSE completed_jobs
    /\ failed_jobs' = IF wsuccess THEN failed_jobs ELSE failed_jobs + 1
    /\ promise_set' = IF wjob.callback = "flush" THEN TRUE ELSE promise_set
    /\ cb_log' = IF wjob.callback = "user" THEN Append(cb_log, <<wjob.id, wsuccess>>)
                 ELSE cb_log
    /\ wpc' = "loop"
    /\ UNCHANGED <<cacheVars, trVars, auxVars>>
    /\ UNCHANGED <<job_queue, queue_mutex, should_terminate, cv_waiting, wjob,
                   wsuccess, fpc, in_dtor, files, submitted, wlog, flush_covered>>

\* ------------------------------------------------ cache: constants and inputs
CACHE_MAGIC == "ARCROSSE"
CACHE_VERSION == 1

\* The binary id initialize_for_binary registered, and one it did not.
BinaryId == "bin"
BinaryIds == {BinaryId, "other"}

\* Guest code of the blocks looked up and stored: NOP and RET.
CodeNop == <<144>>
CodeRet == <<195>>

\* The guest blocks (address, bytes) the translator works on.
Blocks ==
    { [x86_addr |-> 1, code |-> CodeNop],
      [x86_addr |-> 2, code |-> CodeNop],
      [x86_addr |-> 1, code |-> CodeRet] }

\* hash_block: XXH64 of the block's bytes, seed 0. The digests are kept as
\* names; the two codes have different digests.
hash_block(code) == IF code = CodeNop THEN "xxh(90)" ELSE "xxh(C3)"

\* XXH64(nullptr, 0, 0), the placeholder checkpoint() writes as binary hash.
EmptyHash == "xxh()"

\* translate_x86_block under the seeded rules: the host words emitted for a
\* block (NOP -> D503201F; RET -> F84107E0 D65F03C0).
HostCode(code) ==
    IF code = CodeNop THEN <<"D503201F">> ELSE <<"F84107E0", "D65F03C0">>

ZeroWord == "00000000"

Key(addr, hash) == <<addr, hash>>
BlockKey(b) == Key(b.x86_addr, hash_block(b.code))
EntryKey(e) == Key(e.x86_addr, e.x86_hash)
Keys == { BlockKey(b) : b \in Blocks }

\* An EnhancedTranslationEntry that holds nothing.
NoEntry ==
    [x86_addr |-> 0, arm_addr |-> 0, x86_size |-> 0, arm_size |-> 0, x86_hash |-> "",
     access_count |-> 0, is_hot |-> FALSE, flags |-> 0]

NoFile ==
    [exists |-> FALSE, magic |-> "", version |-> 0, entry_count |-> 0, x86_hash |-> "",
     hit_count |-> 0, entries |-> <<>>, payload |-> <<>>]

NoStore == [arm_addr |-> -1, arm_size |-> -1]

NoPromo == [stage |-> 0, key |-> Key(0, "")]

\* `last` when the last call was neither store nor lookup.
NoCall ==
    [op |-> "none", key |-> Key(0, ""), code |-> <<>>,
     found |-> FALSE, level |-> "NOT_FOUND", entry |-> NoEntry,
     arm_code |-> <<>>, evicted |-> NoEntry, pre_in_l1 |-> FALSE,
     pre_persisted |-> FALSE, pre_stored |-> NoStore]

\* ------------------------------------------------ cache: tier 1
\* find_if over l1_cache: the first index whose entry has this key, 0 if none.
FindL1(l1, addr, hash) ==
    IF \E i \in 1..Len(l1) : EntryKey(l1[i]) = Key(addr, hash)
    THEN CHOOSE i \in 1..Len(l1) :
            /\ EntryKey(l1[i]) = Key(addr, hash)
            /\ \A j \in 1..(i - 1) : EntryKey(l1[j]) # Key(addr, hash)
    ELSE 0

RemoveAt(s, i) == SubSeq(s, 1, i - 1) \o SubSeq(s, i + 1, Len(s))

\* std::rotate(begin, it, it + 1): the element at i moves to the front.
MoveToFront(s, i) == <<s[i]>> \o RemoveAt(s, i)

IsHot(count) == count > HOT_THRESHOLD

\* save_to_l1_cache: the capacity test before an insertion.
AtCapacityOffByOne(l1) == Len(l1) > MAX_L1_CACHE_ENTRIES
AtCapacity(l1) == Len(l1) >= MAX_L1_CACHE_ENTRIES

\* save_to_l1_cache: the entry to remove from a full list: the last one that
\* is not hot (find_if over rbegin..rend), the last one if all are hot.
EvictIndexBack(l1) == Len(l1)
EvictIndex(l1) ==
    IF \E i \in 1..Len(l1) : ~l1[i].is_hot
    THEN CHOOSE i \in 1..Len(l1) :
            /\ ~l1[i].is_hot
            /\ \A j \in (i + 1)..Len(l1) : l1[j].is_hot
    ELSE Len(l1)

\* save_to_l1_cache: the update of an entry that is already present.
UpdateExistingStale(e, entry) ==
    [e EXCEPT !.access_count = @ + 1, !.is_hot = IsHot(e.access_count + 1)]
UpdateExisting(e, entry) ==
    [e EXCEPT !.arm_addr = entry.arm_addr,
              !.arm_size = entry.arm_size,
              !.access_count = @ + 1,
              !.is_hot = IsHot(e.access_count + 1)]

\* A save that inserts without looking for the key first.
SaveToL1Blind(l1, entry) ==
    LET new_entry == [entry EXCEPT !.access_count = 1]
        full == AtCapacity(l1)
        v == EvictIndex(l1)
    IN  [l1 |-> <<new_entry>> \o (IF full THEN RemoveAt(l1, v) ELSE l1),
         evicted |-> IF full THEN l1[v] ELSE NoEntry]

\* save_to_l1_cache: the list afterwards and the entry it evicted, if any.
SaveToL1(l1, entry) ==
    LET i == FindL1(l1, entry.x86_addr, entry.x86_hash)
    IN  IF i # 0
        THEN [l1 |-> MoveToFront([l1 EXCEPT ![i] = UpdateExisting(l1[i], entry)], i),
              evicted |-> NoEntry]
        ELSE LET new_entry == [entry EXCEPT !.access_count = 1]
                 full == AtCapacity(l1)
                 v == EvictIndex(l1)
             IN  [l1 |-> <<new_entry>> \o (IF full THEN RemoveAt(l1, v) ELSE l1),
                  evicted |-> IF full THEN l1[v] ELSE NoEntry]

\* A tier-1 lookup that updates the matched entry where it stands, without
\* the std::rotate.
LookupL1InPlace(l1, addr, hash) ==
    LET i == FindL1(l1, addr, hash)
    IN  IF i # 0
        THEN [hit |-> TRUE,
              result |-> l1[i],
              l1 |-> [l1 EXCEPT ![i] =
                         [@ EXCEPT !.access_count = @ + 1,
                                   !.is_hot = IsHot(l1[i].access_count + 1)]]]
        ELSE [hit |-> FALSE, result |-> NoEntry, l1 |-> l1]

\* lookup_l1_cache: hit flag, the copy returned (taken before the update)
\* and the list afterwards.
LookupL1(l1, addr, hash) ==
    LET i == FindL1(l1, addr, hash)
    IN  IF i # 0
        THEN [hit |-> TRUE,
              result |-> l1[i],
              l1 |-> MoveToFront([l1 EXCEPT ![i] =
                         [@ EXCEPT !.access_count = @ + 1,
                                   !.is_hot = IsHot(l1[i].access_count + 1)]], i)]
        ELSE [hit |-> FALSE, result |-> NoEntry, l1 |-> l1]

\* ------------------------------------------------ cache: tier 2
RECURSIVE PrefixSizes(_, _)
\* The running sum of arm_size over the first n entries.
PrefixSizes(entries, n) ==
    IF n = 0 THEN 0 ELSE PrefixSizes(entries, n - 1) + entries[n].arm_size

\* save_l2_cache: header, one record per entry with arm_offset the running
\* sum of the sizes before it, then arm_code as the payload.
SaveL2(entries, arm_code, x86_hash) ==
    [exists |-> TRUE,
     magic |-> CACHE_MAGIC,
     version |-> CACHE_VERSION,
     entry_count |-> Len(entries),
     x86_hash |-> x86_hash,
     hit_count |-> 0,
     entries |-> [i \in 1..Len(entries) |->
                    [x86_addr |-> entries[i].x86_addr,
                     x86_size |-> entries[i].x86_size,
                     x86_hash |-> entries[i].x86_hash,
                     arm_offset |-> PrefixSizes(entries, i - 1),
                     arm_size |-> entries[i].arm_size,
                     execution_count |-> entries[i].access_count,
                     flags |-> entries[i].flags]],
     payload |-> arm_code]

\* seekg(offset) and read(size) in the payload section; what lies beyond the
\* end of the file is not read and stays zero in the resized vector.
ReadPayload(payload, offset, size) ==
    [k \in 1..size |-> IF offset + k <= Len(payload) THEN payload[offset + k] ELSE ZeroWord]

\* A header test that looks at the magic number only.
HeaderValidMagicOnly(f) == f.magic = CACHE_MAGIC

\* lookup_l2_cache: the header test.
HeaderValid(f) == f.magic = CACHE_MAGIC /\ f.version = CACHE_VERSION

\* The record search comparing the block hash with the header's binary hash
\* instead of the record's.
FindRecordHeaderHash(f, addr, hash) ==
    IF \E i \in 1..Len(f.entries) : f.entries[i].x86_addr = addr /\ f.x86_hash = hash
    THEN CHOOSE i \in 1..Len(f.entries) : f.entries[i].x86_addr = addr /\ f.x86_hash = hash
    ELSE 0

FindRecord(f, addr, hash) ==
    IF \E i \in 1..Len(f.entries) : EntryKey(f.entries[i]) = Key(addr, hash)
    THEN CHOOSE i \in 1..Len(f.entries) :
            /\ EntryKey(f.entries[i]) = Key(addr, hash)
            /\ \A j \in 1..(i - 1) : EntryKey(f.entries[j]) # Key(addr, hash)
    ELSE 0

\* Host addresses are kept relative to &arm_memory[0], so the arena is
\* 0..ArenaSize - 1; the address 0 that lookup_l2_cache puts into its result
\* lies below the arena.
NullAddr == -1

\* A tier-2 lookup whose write-back counts an execution on every record of
\* the file instead of the matched one.
LookupL2CountAll(f, addr, hash) ==
    LET i == IF f.exists /\ HeaderValid(f) THEN FindRecord(f, addr, hash) ELSE 0
    IN  IF i = 0
        THEN [hit |-> FALSE, result |-> NoEntry, arm_code |-> <<>>, file |-> f]
        ELSE LET r == f.entries[i]
             IN  [hit |-> TRUE,
                  result |-> [x86_addr |-> r.x86_addr,
                              arm_addr |-> NullAddr,
                              x86_size |-> r.x86_size,
                              arm_size |-> r.arm_size,
                              x86_hash |-> r.x86_hash,
                              access_count |-> r.execution_count,
                              is_hot |-> IsHot(r.execution_count),
                              flags |-> r.flags],
                  arm_code |-> ReadPayload(f.payload, r.arm_offset, r.arm_size),
                  file |-> [f EXCEPT !.hit_count = @ + 1,
                                     !.entries = [k \in 1..Len(f.entries) |->
                                        [f.entries[k] EXCEPT !.execution_count = @ + 1]]]]

\* lookup_l2_cache: hit flag, the entry and host code returned, and the file
\* afterwards (record and header counters rewritten in place on a hit).
LookupL2(f, addr, hash) ==
    LET i == IF f.exists /\ HeaderValid(f) THEN FindRecord(f, addr, hash) ELSE 0
    IN  IF i = 0
        THEN [hit |-> FALSE, result |-> NoEntry, arm_code |-> <<>>, file |-> f]
        ELSE LET r == f.entries[i]
             IN  [hit |-> TRUE,
                  result |-> [x86_addr |-> r.x86_addr,
                              arm_addr |-> NullAddr,
                              x86_size |-> r.x86_size,
                              arm_size |-> r.arm_size,
                              x86_hash |-> r.x86_hash,
                              access_count |-> r.execution_count,
                              is_hot |-> IsHot(r.execution_count),
                              flags |-> r.flags],
                  arm_code |-> ReadPayload(f.payload, r.arm_offset, r.arm_size),
                  file |-> [f EXCEPT !.hit_count = @ + 1,
                                     !.entries[i].execution_count = @ + 1]]

\* ------------------------------------------------ cache: Init
CacheVarsInit ==
    /\ l1_cache = <<>>
    /\ cache_file = NoFile
    /\ arm_memory = [i \in 1..ArenaSize |-> ZeroWord]
    /\ next_arm_offset = 0
    /\ l1_hits = 0
    /\ l2_hits = 0
    /\ misses = 0
    /\ last = NoCall
    /\ stored_at = [k \in Keys |-> NoStore]
    /\ ins_log = <<>>
    /\ reaccessed = FALSE
    /\ corrupted = "none"
    /\ lookups = 0
    /\ promo = NoPromo

\* `promo` after the call op on key k under binary id bid: the next stage
\* when the call continues the sequence on promo.key, stage 1 when it is a
\* lookup of a block that is neither in tier 1 nor in the file, else stage 0.
PromoStep(op, bid, k) ==
    LET next == [promo EXCEPT !.stage = @ + 1]
        fresh == /\ op = "lookup"
                 /\ FindL1(l1_cache, k[1], k[2]) = 0
                 /\ FindRecord(cache_file, k[1], k[2]) = 0
    IN  IF promo.stage = 1 /\ op = "store" /\ k = promo.key THEN next
        ELSE IF promo.stage \in {2, 6} /\ op = "lookup" /\ k = promo.key THEN next
        ELSE IF promo.stage = 3 /\ op = "checkpoint" THEN next
        ELSE IF promo.stage = 4 /\ op = "clear" THEN next
        ELSE IF promo.stage = 5 /\ op = "lookup" /\ k = promo.key /\ bid = BinaryId
             THEN next
        ELSE IF fresh THEN [stage |-> 1, key |-> k]
        ELSE NoPromo

\* The history variables after a call that left tier 1 as SaveToL1 or
\* LookupL1 computed.
Forget(st, evicted) ==
    IF evicted = NoEntry THEN st ELSE [st EXCEPT ![EntryKey(evicted)] = NoStore]

\* ------------------------------------------------ cache: operations
\* The translator's miss path: emit the block's host code at the arena
\* cursor, store() it (entry with access_count 1, not hot; save_to_l1_cache;
\* schedule_l2_write does nothing), advance the cursor.
Store(b) ==
    LET host == HostCode(b.code)
        entry == [x86_addr |-> b.x86_addr,
                  arm_addr |-> next_arm_offset,
                  x86_size |-> Len(b.code),
                  arm_size |-> Len(host),
                  x86_hash |-> hash_block(b.code),
                  access_count |-> 1,
                  is_hot |-> FALSE,
                  flags |-> 0]
        saved == SaveToL1(l1_cache, entry)
    IN  /\ next_arm_offset + Len(host) <= ArenaSize
        /\ arm_memory' = [i \in 1..ArenaSize |->
                            IF i > next_arm_offset /\ i <= next_arm_offset + Len(host)
                            THEN host[i - next_arm_offset] ELSE arm_memory[i]]
        /\ next_arm_offset' = next_arm_offset + Len(host)
        /\ l1_cache' = saved.l1
        /\ stored_at' = [Forget(stored_at, saved.evicted) EXCEPT ![BlockKey(b)] =
                            [arm_addr |-> entry.arm_addr, arm_size |-> entry.arm_size]]
        /\ reaccessed' = (reaccessed \/ BlockKey(b) \in Range(ins_log))
        /\ ins_log' = IF reaccessed \/ BlockKey(b) \in Range(ins_log)
                      THEN <<>> ELSE Append(ins_log, BlockKey(b))
        /\ last' = [op |-> "store", key |-> BlockKey(b), code |-> b.code,
                    found |-> FALSE, level |-> "NOT_FOUND", entry |-> entry,
                    arm_code |-> <<>>, evicted |-> saved.evicted,
                    pre_in_l1 |-> FindL1(l1_cache, b.x86_addr, hash_block(b.code)) # 0,
                    pre_persisted |-> FALSE, pre_stored |-> stored_at[BlockKey(b)]]
        /\ promo' = PromoStep("store", BinaryId, BlockKey(b))
        /\ UNCHANGED <<cache_file, l1_hits, l2_hits, misses, corrupted, lookups>>
        /\ UNCHANGED <<pmVars, trVars, auxVars>>

\* A lookup that counts a miss as soon as tier 1 has missed, before the
\* cache file is searched.
LookupCallMissFirst(bid, b) ==
    LET hash == hash_block(b.code)
        r1 == LookupL1(l1_cache, b.x86_addr, hash)
        mapped == bid = BinaryId
        r2 == LookupL2(cache_file, b.x86_addr, hash)
        saved == SaveToL1(l1_cache, r2.result)
        pre == [pre_in_l1 |-> r1.hit,
                pre_persisted |-> /\ mapped
                                  /\ cache_file.exists
                                  /\ corrupted = "none"
                                  /\ \E i \in 1..Len(cache_file.entries) :
                                        EntryKey(cache_file.entries[i]) = BlockKey(b),
                pre_stored |-> stored_at[BlockKey(b)]]
        call == [op |-> "lookup", key |-> BlockKey(b), code |-> b.code]
    IN  /\ lookups' = lookups + 1
        /\ promo' = PromoStep("lookup", bid, BlockKey(b))
        /\ IF r1.hit
           THEN /\ l1_cache' = r1.l1
                /\ l1_hits' = l1_hits + 1
                /\ reaccessed' = TRUE
                /\ ins_log' = <<>>
                /\ last' = call @@ pre @@
                           [found |-> TRUE, level |-> "L1_MEMORY", entry |-> r1.result,
                            arm_code |-> <<>>, evicted |-> NoEntry]
                /\ UNCHANGED <<cache_file, l2_hits, misses, stored_at>>
           ELSE IF mapped /\ r2.hit
           THEN /\ cache_file' = r2.file
                /\ l2_hits' = l2_hits + 1
                /\ l1_cache' = saved.l1
                /\ stored_at' = Forget(stored_at, saved.evicted)
                /\ ins_log' = <<>>
                /\ reaccessed' = TRUE
                /\ last' = call @@ pre @@
                           [found |-> TRUE, level |-> "L2_PERSISTENT", entry |-> r2.result,
                            arm_code |-> r2.arm_code, evicted |-> saved.evicted]
                /\ misses' = misses + 1
                /\ UNCHANGED l1_hits
           ELSE /\ misses' = misses + 1
                /\ last' = call @@ pre @@
                           [found |-> FALSE, level |-> "NOT_FOUND", entry |-> NoEntry,
                            arm_code |-> <<>>, evicted |-> NoEntry]
                /\ UNCHANGED <<l1_cache, cache_file, l1_hits, l2_hits, stored_at,
                               ins_log, reaccessed>>
        /\ UNCHANGED <<arm_memory, next_arm_offset, corrupted>>
        /\ UNCHANGED <<pmVars, trVars, auxVars>>

\* lookup: tier 1, then the binary's cache file with promotion into tier 1,
\* else a miss.
LookupCall(bid, b) ==
    LET hash == hash_block(b.code)
        r1 == LookupL1(l1_cache, b.x86_addr, hash)
        mapped == bid = BinaryId
        r2 == LookupL2(cache_file, b.x86_addr, hash)
        saved == SaveToL1(l1_cache, r2.result)
        pre == [pre_in_l1 |-> r1.hit,
                pre_persisted |-> /\ mapped
                                  /\ cache_file.exists
                                  /\ corrupted = "none"
                                  /\ \E i \in 1..Len(cache_file.entries) :
                                        EntryKey(cache_file.entries[i]) = BlockKey(b),
                pre_stored |-> stored_at[BlockKey(b)]]
        call == [op |-> "lookup", key |-> BlockKey(b), code |-> b.code]
    IN  /\ lookups' = lookups + 1
        /\ promo' = PromoStep("lookup", bid, BlockKey(b))
        /\ IF r1.hit
           THEN /\ l1_cache' = r1.l1
                /\ l1_hits' = l1_hits + 1
                /\ reaccessed' = TRUE
                /\ ins_log' = <<>>
                /\ last' = call @@ pre @@
                           [found |-> TRUE, level |-> "L1_MEMORY", entry |-> r1.result,
                            arm_code |-> <<>>, evicted |-> NoEntry]
                /\ UNCHANGED <<cache_file, l2_hits, misses, stored_at>>
           ELSE IF mapped /\ r2.hit
           THEN /\ cache_file' = r2.file
                /\ l2_hits' = l2_hits + 1
                /\ l1_cache' = saved.l1
                /\ stored_at' = Forget(stored_at, saved.evicted)
                /\ ins_log' = <<>>
                /\ reaccessed' = TRUE
                /\ last' = call @@ pre @@
                           [found |-> TRUE, level |-> "L2_PERSISTENT", entry |-> r2.result,
                            arm_code |-> r2.arm_code, evicted |-> saved.evicted]
                /\ UNCHANGED <<l1_hits, misses>>
           ELSE /\ misses' = misses + 1
                /\ last' = call @@ pre @@
                           [found |-> FALSE, level |-> "NOT_FOUND", entry |-> NoEntry,
                            arm_code |-> <<>>, evicted |-> NoEntry]
                /\ UNCHANGED <<l1_cache, cache_file, l1_hits, l2_hits, stored_at,
                               ins_log, reaccessed>>
        /\ UNCHANGED <<arm_memory, next_arm_offset, corrupted>>
        /\ UNCHANGED <<pmVars, trVars, auxVars>>

\* A lookup() call, while the run has lookups left.
Lookup(bid, b) ==
    /\ lookups < MaxLookups
    /\ LookupCall(bid, b)

\* checkpoint(BinaryId, arm_memory): rewrite the binary's cache file from
\* tier 1 and the whole arena.
CheckpointCall ==
    /\ cache_file' = SaveL2(l1_cache, arm_memory, EmptyHash)
    /\ corrupted' = "none"
    /\ last' = NoCall
    /\ promo' = PromoStep("checkpoint", BinaryId, Key(0, ""))
    /\ UNCHANGED <<l1_cache, arm_memory, next_arm_offset, l1_hits, l2_hits, misses,
                   stored_at, ins_log, reaccessed, lookups>>
    /\ UNCHANGED <<pmVars, trVars>>

Checkpoint == CheckpointCall /\ UNCHANGED auxVars

\* get_stats: the three counters and the number of tier-1 entries.
get_stats ==
    [l1_hit_count |-> l1_hits,
     l2_hit_count |-> l2_hits,
     miss_count |-> misses,
     entry_count |-> Len(l1_cache)]

\* clear(): empty tier 1 and reset the statistics.
Clear ==
    /\ l1_cache' = <<>>
    /\ l1_hits' = 0
    /\ l2_hits' = 0
    /\ misses' = 0
    /\ stored_at' = [k \in Keys |-> NoStore]
    /\ ins_log' = <<>>
    /\ reaccessed' = TRUE
    /\ last' = NoCall
    /\ promo' = PromoStep("clear", BinaryId, Key(0, ""))
    /\ UNCHANGED <<cache_file, arm_memory, next_arm_offset, corrupted, lookups>>
    /\ UNCHANGED <<pmVars, trVars, auxVars>>

\* Something outside the program damages one header field of the file.
CorruptHeader(field) ==
    /\ cache_file.exists
    /\ corrupted = "none"
    /\ corrupted' = field
    /\ cache_file' =
         IF field = "magic" THEN [cache_file EXCEPT !.magic = "XRCROSSE"]
         ELSE IF field = "version" THEN [cache_file EXCEPT !.version = 2]
         ELSE [cache_file EXCEPT !.x86_hash = "xxh(damaged)"]
    /\ last' = NoCall
    /\ promo' = NoPromo
    /\ UNCHANGED <<l1_cache, arm_memory, next_arm_offset, l1_hits, l2_hits, misses,
                   stored_at, ins_log, reaccessed, lookups>>
    /\ UNCHANGED <<pmVars, trVars, auxVars>>

CacheNext ==
    \/ \E b \in Blocks : Store(b)
    \/ \E bid \in BinaryIds, b \in Blocks : Lookup(bid, b)
    \/ Checkpoint
    \/ Clear

\* The cache together with damage to the file's header.
CacheIntegrityNext ==
    \/ CacheNext
    \/ \E field \in {"magic", "version", "binary_fp"} : CorruptHeader(field)

\* ------------------------------------------------ persistence: specification
WorkerStep ==
    \/ WorkerLoop \/ WorkerLock \/ WorkerPredicate \/ WorkerBlock
    \/ WorkerPop \/ WorkerOpen \/ WorkerWrite \/ WorkerFinish

ForegroundContinue ==
    \/ QueueWriteNotify \/ FlushNotify \/ DestroySetTerminate \/ DestroyNotify
    \/ ForegroundUnblock

PMNext ==
    \/ \E in \in JobInputs : QueueWrite(in)
    \/ Flush
    \/ Destroy
    \/ ForegroundContinue
    \/ WorkerStep
    \/ WorkerSpuriousWake

\* ------------------------------------------------ translator: inputs
\* cpu_state.rip += 16 after every dispatched block.
RIP_STEP == 16

\* x86_memory.size(), in bytes.
GuestSize == GuestSlots * RIP_STEP

\* A block of zero bytes: guest memory no program was copied into. It has no
\* terminating instruction.
CodeZero == <<0>>

\* The program size arguments of run_x86_program (every slot of a program
\* holds a RET), and its entry points.
Sizes == { k * RIP_STEP : k \in 0..GuestSlots }
EntryPoints == {0, RIP_STEP}

\* analyze_x86_block at a block boundary: the bytes of the block there.
AnalyzeBlock(mem, offset) == mem[(offset \div RIP_STEP) + 1]

\* hash_block over the translator's blocks.
TrHashBlock(code) == IF code = CodeZero THEN "xxh(00)" ELSE hash_block(code)

\* translate_x86_block: a block without terminator is translated
\* instruction by instruction, each to a NOP, until max_arm_inst words.
TranslateBlock(code) ==
    IF code = CodeZero THEN [i \in 1..MAX_BLOCK_WORDS |-> "D503201F"] ELSE HostCode(code)

\* A null TranslationEntry pointer.
NullEntry == [x86_addr |-> -1, arm_addr |-> -1, length |-> -1]

\* The arena after `words` were written at word offset `at`; words that fall
\* outside the arena are not kept.
WriteArena(mem, at, words) ==
    [i \in 1..ArenaSize |->
        IF i > at /\ i <= at + Len(words) THEN words[i - at] ELSE mem[i]]

\* unordered_map operator[] followed by ++.
Increment(map, a) ==
    IF a \in DOMAIN map THEN [map EXCEPT ![a] = @ + 1] ELSE (a :> 1) @@ map

TrVarsInit ==
    /\ tpc = "idle"
    /\ rip = 0
    /\ entry_point = 0
    /\ prog_size = 0
    /\ x86_memory = [i \in 1..GuestSlots |-> CodeZero]
    /\ current_binary_id = ""
    /\ tr_entry = NullEntry
    /\ execution_count = <<>>
    /\ static_execution_count = 0
    /\ dispatch_log = <<>>
    /\ ckpt_log = <<>>
    /\ oob = FALSE
    /\ runs = 0

\* ------------------------------------------------ translator: run loop
\* run_x86_program(program, sz, entry): load_binary when rip is 0, then enter
\* the loop.
TrRun(sz, entry, bid) ==
    /\ tpc = "idle"
    /\ fpc = "idle"
    /\ runs < MaxRuns
    /\ runs' = runs + 1
    /\ entry_point' = entry
    /\ prog_size' = sz
    /\ IF rip = 0
       THEN /\ x86_memory' = [i \in 1..GuestSlots |->
                                IF (i - 1) * RIP_STEP < sz THEN CodeRet ELSE x86_memory[i]]
            /\ rip' = entry
            /\ current_binary_id' = bid
       ELSE UNCHANGED <<x86_memory, rip, current_binary_id>>
    /\ tpc' = "find"
    /\ UNCHANGED <<tr_entry, execution_count, static_execution_count, dispatch_log,
                   ckpt_log, oob>>
    /\ UNCHANGED <<pmVars, cacheVars, auxVars>>

\* find_or_translate_block(x86_addr, entry), the whole call: what it leaves
\* in the cache, the arena and the cursor, and the entry it returns.
FindOrTranslate(x86_addr, entry) ==
    LET offset == x86_addr - entry
        code == AnalyzeBlock(x86_memory, offset)
        hash == TrHashBlock(code)
        r1 == LookupL1(l1_cache, x86_addr, hash)
        r2 == LookupL2(cache_file, x86_addr, hash)
        promoted == SaveToL1(l1_cache, r2.result)
        host == TranslateBlock(code)
        new == [x86_addr |-> x86_addr,
                arm_addr |-> next_arm_offset,
                x86_size |-> Len(code),
                arm_size |-> Len(host),
                x86_hash |-> hash,
                access_count |-> 1,
                is_hot |-> FALSE,
                flags |-> 0]
        saved == SaveToL1(l1_cache, new)
    IN  IF offset < 0 \/ offset >= GuestSize
        THEN \* the address is outside guest memory: null
             /\ tr_entry' = NullEntry
             /\ UNCHANGED <<l1_cache, cache_file, arm_memory, next_arm_offset,
                            l1_hits, l2_hits, misses, oob>>
        ELSE IF r1.hit
        THEN /\ l1_cache' = r1.l1
             /\ l1_hits' = l1_hits + 1
             /\ tr_entry' = [x86_addr |-> r1.result.x86_addr,
                             arm_addr |-> r1.result.arm_addr,
                             length |-> r1.result.arm_size]
             /\ UNCHANGED <<cache_file, arm_memory, next_arm_offset, l2_hits,
                            misses, oob>>
        ELSE IF current_binary_id = BinaryId /\ r2.hit
        THEN /\ cache_file' = r2.file
             /\ l2_hits' = l2_hits + 1
             /\ l1_cache' = promoted.l1
             /\ IF next_arm_offset + Len(r2.arm_code) >= ArenaSize
                THEN /\ tr_entry' = NullEntry
                     /\ UNCHANGED <<arm_memory, next_arm_offset>>
                ELSE /\ arm_memory' = WriteArena(arm_memory, next_arm_offset, r2.arm_code)
                     /\ tr_entry' = [x86_addr |-> x86_addr,
                                     arm_addr |-> next_arm_offset,
                                     length |-> Len(r2.arm_code)]
                     /\ next_arm_offset' = next_arm_offset + Len(r2.arm_code)
             /\ UNCHANGED <<l1_hits, misses, oob>>
        ELSE \* a miss: translate at the cursor, store, advance the cursor
             /\ misses' = misses + 1
             /\ arm_memory' = WriteArena(arm_memory, next_arm_offset, host)
             /\ oob' = (oob \/ next_arm_offset + Len(host) > ArenaSize)
             /\ l1_cache' = saved.l1
             /\ next_arm_offset' = next_arm_offset + Len(host)
             /\ tr_entry' = [x86_addr |-> x86_addr, arm_addr |-> next_arm_offset,
                             length |-> Len(host)]
             /\ UNCHANGED <<cache_file, l1_hits, l2_hits>>

\* The run loop's call of find_or_translate_block(rip, entry_point); a null
\* result ends the loop.
TrFind ==
    /\ tpc = "find"
    /\ FindOrTranslate(rip, entry_point)
    /\ tpc' = IF tr_entry' = NullEntry THEN "flush" ELSE "dispatch"
    /\ UNCHANGED <<last, stored_at, ins_log, reaccessed, corrupted, lookups, promo>>
    /\ UNCHANGED <<rip, entry_point, prog_size, x86_memory, current_binary_id,
                   execution_count, static_execution_count, dispatch_log,
                   ckpt_log, runs>>
    /\ UNCHANGED <<pmVars, auxVars>>

\* A dispatch that tests the static counter before incrementing it.
TrDispatchTestFirst ==
    /\ tpc = "dispatch"
    /\ execution_count' = Increment(execution_count, rip)
    /\ dispatch_log' = Append(dispatch_log, rip)
    /\ static_execution_count' = static_execution_count + 1
    /\ tpc' = IF static_execution_count % CHECKPOINT_EVERY = 0
              THEN "checkpoint" ELSE "advance"
    /\ UNCHANGED <<rip, entry_point, prog_size, x86_memory, current_binary_id, tr_entry,
                   ckpt_log, oob, runs>>
    /\ UNCHANGED <<pmVars, cacheVars, auxVars>>

\* execution_count[current_addr]++, execute_arm_code, and the test of the
\* static counter that decides on a checkpoint.
TrDispatch ==
    /\ tpc = "dispatch"
    /\ execution_count' = Increment(execution_count, rip)
    /\ dispatch_log' = Append(dispatch_log, rip)
    /\ static_execution_count' = static_execution_count + 1
    /\ tpc' = IF (static_execution_count + 1) % CHECKPOINT_EVERY = 0
              THEN "checkpoint" ELSE "advance"
    /\ UNCHANGED <<rip, entry_point, prog_size, x86_memory, current_binary_id, tr_entry,
                   ckpt_log, oob, runs>>
    /\ UNCHANGED <<pmVars, cacheVars, auxVars>>

\* checkpoint_cache: queue_write of the arena bytes below the cursor, at
\* offset 0, to the binary's cache path.
TrCheckpoint ==
    /\ tpc = "checkpoint"
    /\ QueueWriteCall([cache_file |-> CachePath,
                       data |-> SubSeq(arm_memory, 1,
                                       IF next_arm_offset < ArenaSize
                                       THEN next_arm_offset ELSE ArenaSize),
                       offset |-> 0,
                       callback |-> "none"])
    /\ ckpt_log' = Append(ckpt_log, Len(dispatch_log))
    /\ tpc' = "advance"
    /\ UNCHANGED <<rip, entry_point, prog_size, x86_memory, current_binary_id, tr_entry,
                   execution_count, static_execution_count, dispatch_log, oob, runs>>

\* rip += 16 and the termination test.
TrAdvance ==
    /\ tpc = "advance"
    /\ fpc = "idle"
    /\ rip' = rip + RIP_STEP
    /\ tpc' = IF rip + RIP_STEP >= entry_point + prog_size THEN "flush" ELSE "find"
    /\ UNCHANGED <<entry_point, prog_size, x86_memory, current_binary_id, tr_entry,
                   execution_count, static_execution_count, dispatch_log, ckpt_log,
                   oob, runs>>
    /\ UNCHANGED <<pmVars, cacheVars, auxVars>>

\* After the loop: persistence_manager->flush().
TrFlush ==
    /\ tpc = "flush"
    /\ FlushLock(FALSE)
    /\ tpc' = "flushed"
    /\ UNCHANGED <<rip, entry_point, prog_size, x86_memory, current_binary_id, tr_entry,
                   execution_count, static_execution_count, dispatch_log, ckpt_log,
                   oob, runs>>

\* flush() has returned, and with it run_x86_program.
TrReturn ==
    /\ tpc = "flushed"
    /\ fpc = "idle"
    /\ tpc' = "idle"
    /\ UNCHANGED <<rip, entry_point, prog_size, x86_memory, current_binary_id, tr_entry,
                   execution_count, static_execution_count, dispatch_log, ckpt_log,
                   oob, runs>>
    /\ UNCHANGED <<pmVars, cacheVars, auxVars>>

\* The steps of the thread that calls run_x86_program, after the call.
TrStep ==
    \/ TrFind \/ TrDispatch \/ TrCheckpoint \/ TrAdvance \/ TrFlush \/ TrReturn
    \/ QueueWriteNotify \/ FlushNotify

TrNext ==
    \/ \E sz \in Sizes, entry \in EntryPoints, bid \in BinaryIds : TrRun(sz, entry, bid)
    \/ TrStep
    \/ WorkerStep
    \/ WorkerSpuriousWake

\* ------------------------------------------------ lookup on a second thread
NoSnap == [entry_count |-> 0, x86_hash |-> "", hit_count |-> 0, index |-> 0,
           record |-> NoEntry, result |-> NoEntry, arm_code |-> <<>>]

LkVarsInit ==
    /\ lpc = "idle"
    /\ lreq = CHOOSE b \in Blocks : TRUE
    /\ lsnap = NoSnap
    /\ ckpt_file = NoFile

\* What a reader finds in a record slot that holds payload bytes or a hole.
GarbageRecord ==
    [x86_addr |-> -2, x86_size |-> 0, x86_hash |-> "garbage", arm_offset |-> 0,
     arm_size |-> 0, execution_count |-> 0, flags |-> 0]

GarbageWord == "????????"

\* The end of lookup_l2_cache: through update_file, the header read earlier
\* (hit_count + 1) is written at offset 0 and the record read earlier
\* (execution_count + 1) at the slot it was found in. The file is kept as a
\* reader parses it afterwards: entry_count slots, and the payload after them.
WriteBackL2(f, snap) ==
    LET slot(k) == IF k = snap.index
                   THEN [snap.record EXCEPT !.execution_count = @ + 1]
                   ELSE IF k <= Len(f.entries) THEN f.entries[k]
                   ELSE GarbageRecord
    IN  [f EXCEPT !.entry_count = snap.entry_count,
                  !.x86_hash = snap.x86_hash,
                  !.hit_count = snap.hit_count + 1,
                  !.entries = [k \in 1..snap.entry_count |-> slot(k)],
                  !.payload = IF snap.entry_count = Len(f.entries)
                              THEN f.payload
                              ELSE [k \in 1..Len(f.payload) |-> GarbageWord]]

\* lookup(BinaryId, b) up to the tier-1 answer (lookup_l1_cache holds
\* cache_mutex).
LkBegin(b) ==
    LET r1 == LookupL1(l1_cache, b.x86_addr, hash_block(b.code))
    IN  /\ lpc = "idle"
        /\ lookups < MaxLookups
        /\ lookups' = lookups + 1
        /\ IF r1.hit
           THEN /\ l1_cache' = r1.l1
                /\ l1_hits' = l1_hits + 1
                /\ UNCHANGED <<lpc, lreq>>
           ELSE /\ lpc' = "l2read"
                /\ lreq' = b
                /\ UNCHANGED <<l1_cache, l1_hits>>
        /\ last' = NoCall
        /\ promo' = NoPromo
        /\ ins_log' = <<>>
        /\ reaccessed' = TRUE
        /\ UNCHANGED <<cache_file, arm_memory, next_arm_offset, l2_hits, misses,
                       stored_at, corrupted>>
        /\ UNCHANGED <<lsnap, ckpt_file, mtVars, fnVars>>
        /\ UNCHANGED <<pmVars, trVars>>

\* lookup_l2_cache up to `l2_hits++`: the reads of header, records and host
\* code. cache_mutex is not held.
LkRead ==
    LET hash == hash_block(lreq.code)
        r2 == LookupL2(cache_file, lreq.x86_addr, hash)
        i == FindRecord(cache_file, lreq.x86_addr, hash)
    IN  /\ lpc = "l2read"
        /\ IF r2.hit
           THEN /\ lsnap' = [entry_count |-> cache_file.entry_count,
                             x86_hash |-> cache_file.x86_hash,
                             hit_count |-> cache_file.hit_count,
                             index |-> i,
                             record |-> cache_file.entries[i],
                             result |-> r2.result,
                             arm_code |-> r2.arm_code]
                /\ l2_hits' = l2_hits + 1
                /\ lpc' = "writeback"
                /\ UNCHANGED misses
           ELSE /\ misses' = misses + 1
                /\ lpc' = "idle"
                /\ UNCHANGED <<lsnap, l2_hits>>
        /\ UNCHANGED <<l1_cache, cache_file, arm_memory, next_arm_offset, l1_hits, last,
                       stored_at, ins_log, reaccessed, corrupted, lookups, promo>>
        /\ UNCHANGED <<lreq, ckpt_file, mtVars, fnVars>>
        /\ UNCHANGED <<pmVars, trVars>>

\* lookup_l2_cache from the opening of update_file to its return.
LkWriteBack ==
    /\ lpc = "writeback"
    /\ cache_file' = IF cache_file.exists THEN WriteBackL2(cache_file, lsnap)
                     ELSE cache_file
    /\ lpc' = "promote"
    /\ UNCHANGED <<l1_cache, arm_memory, next_arm_offset, l1_hits, l2_hits, misses, last,
                   stored_at, ins_log, reaccessed, corrupted, lookups, promo>>
    /\ UNCHANGED <<lreq, lsnap, ckpt_file, mtVars, fnVars>>
    /\ UNCHANGED <<pmVars, trVars>>

\* Back in lookup(): save_to_l1_cache(entry) and return.
LkPromote ==
    LET saved == SaveToL1(l1_cache, lsnap.result)
    IN  /\ lpc = "promote"
        /\ l1_cache' = saved.l1
        /\ stored_at' = Forget(stored_at, saved.evicted)
        /\ lpc' = "idle"
        /\ lsnap' = NoSnap
        /\ UNCHANGED <<cache_file, arm_memory, next_arm_offset, l1_hits, l2_hits, misses,
                       last, ins_log, reaccessed, corrupted, lookups, promo>>
        /\ UNCHANGED <<lreq, ckpt_file, mtVars, fnVars>>
        /\ UNCHANGED <<pmVars, trVars>>

\* checkpoint(BinaryId, arm_memory) on the translator's thread; cache_mutex is
\* held for the whole call.
LkCheckpoint ==
    /\ CheckpointCall
    /\ ckpt_file' = cache_file'
    /\ UNCHANGED <<lpc, lreq, lsnap, mtVars, fnVars>>

\* A translator thread that stores, checkpoints and clears while a second
\* thread runs lookup().
ConcurrentNext ==
    \/ \E b \in Blocks : Store(b)
    \/ \E b \in Blocks : LkBegin(b)
    \/ LkRead
    \/ LkWriteBack
    \/ LkPromote
    \/ LkCheckpoint
    \/ Clear

\* ------------------------------------------------ maintenance
\* max_cache_size, in bytes.
max_cache_size == 1073741824

\* The .cache files that may exist: sizes in bytes, last-write times as ranks
\* (two files may carry the same time).
FileSizes == {209715200, 214748365, 429496730}
CacheFiles == [name : 1..MaxFiles, size : FileSizes, time : 1..MaxFiles]

RECURSIVE TotalSize(_)
\* total_size: the sum of file_size() over a set of files.
TotalSize(fs) ==
    IF fs = {} THEN 0
    ELSE LET f == CHOOSE g \in fs : TRUE IN f.size + TotalSize(fs \ {f})

\* (uint64_t)(total_size - max_cache_size * 0.8): the product and the
\* difference are doubles, the conversion drops the fraction. For a total
\* above max_cache_size that is total_size minus 0.8 * max_cache_size rounded
\* up.
SpaceToFree(total_size) ==
    total_size - (4 * (max_cache_size \div 5) + (4 * (max_cache_size % 5) + 4) \div 5)

\* The orders std::sort may leave the files in: ascending last-write time,
\* files of equal time either way round.
SortedOrders(fs) ==
    { o \in [1..Cardinality(fs) -> fs] :
        /\ \A i, j \in 1..Cardinality(fs) : i # j => o[i] # o[j]
        /\ \A i, j \in 1..Cardinality(fs) : i < j => o[i].time <= o[j].time }

RECURSIVE RemoveOldest(_, _, _)
\* The removal loop from position k of the sorted files on: stop once
\* freed_space >= space_to_free, else remove the file and count its size.
RemoveOldest(order, k, freed_space) ==
    IF k > Len(order) \/ freed_space >= SpaceToFree(TotalSize(Range(order)))
    THEN <<>>
    ELSE <<order[k]>> \o RemoveOldest(order, k + 1, freed_space + order[k].size)

\* perform_maintenance on the files fs, sorted as `order`: the files removed.
PerformMaintenance(fs, order) ==
    IF TotalSize(fs) > max_cache_size THEN RemoveOldest(order, 1, 0) ELSE <<>>

MtVarsInit ==
    /\ cache_dir = {}
    /\ dir_before = {}
    /\ removed = <<>>

\* A cache file appears in the directory (a first checkpoint of some binary).
MtCreate(f) ==
    /\ Cardinality(cache_dir) < MaxFiles
    /\ \A g \in cache_dir : g.name # f.name
    /\ cache_dir' = cache_dir \cup {f}
    /\ dir_before' = {}
    /\ removed' = <<>>
    /\ UNCHANGED <<pmVars, cacheVars, trVars, lkVars, fnVars>>

\* One perform_maintenance pass over the directory.
MtPass ==
    /\ cache_dir # {}
    /\ \E order \in SortedOrders(cache_dir) :
        /\ removed' = PerformMaintenance(cache_dir, order)
        /\ cache_dir' = cache_dir \ Range(PerformMaintenance(cache_dir, order))
    /\ dir_before' = cache_dir
    /\ UNCHANGED <<pmVars, cacheVars, trVars, lkVars, fnVars>>

MaintenanceNext ==
    \/ \E f \in CacheFiles : MtCreate(f)
    \/ MtPass

\* ------------------------------------------------ decoder
\* X86InstructionDef: the flags of a definition.
Def(modrm, sib, disp, imm) ==
    [has_modrm |-> modrm, has_sib |-> sib, has_displacement |-> disp,
     has_immediate |-> imm]

\* create_default_definitions("x86"): NOP 90, MOV 89, ADD 01, SUB 29, CALL E8,
\* RET C3, SIMD_PREFIX 0F.
x86_defs ==
    (144 :> Def(FALSE, FALSE, FALSE, FALSE)) @@
    (137 :> Def(TRUE, TRUE, TRUE, FALSE)) @@
    (1 :> Def(TRUE, TRUE, TRUE, FALSE)) @@
    (41 :> Def(TRUE, TRUE, TRUE, FALSE)) @@
    (232 :> Def(FALSE, FALSE, FALSE, TRUE)) @@
    (195 :> Def(FALSE, FALSE, FALSE, FALSE)) @@
    (15 :> Def(FALSE, FALSE, FALSE, FALSE))

\* X86DecodedInst inst = {0}.
ZeroInst == [opcode |-> 0, modrm |-> 0, sib |-> 0, length |-> 0]

\* decode_x86_instruction(code, offset, max_length) with max_length the
\* length of the slice. code[offset] of the source is code[offset + 1] here.
decode_x86_instruction(code, offset) ==
    LET max_length == Len(code)
        opcode == code[offset + 1]
        known == opcode \in DOMAIN x86_defs
        def == x86_defs[opcode]
        got_modrm == known /\ def.has_modrm /\ offset + 1 < max_length
        modrm == IF got_modrm THEN code[offset + 2] ELSE 0
        len2 == IF got_modrm THEN 2 ELSE 1
        mod == (modrm \div 64) % 4
        rm == modrm % 8
        got_sib == got_modrm /\ def.has_sib /\ mod # 3 /\ rm = 4
                     /\ offset + len2 < max_length
        len3 == IF got_sib THEN len2 + 1 ELSE len2
        len4 == IF got_modrm /\ def.has_displacement
                THEN IF mod = 1 /\ offset + len3 < max_length THEN len3 + 1
                     ELSE IF mod = 2 /\ offset + len3 + 3 < max_length THEN len3 + 4
                     ELSE len3
                ELSE len3
        len5 == IF known /\ def.has_immediate /\ offset + len4 + 3 < max_length
                THEN len4 + 4 ELSE len4
    IN  IF offset >= max_length THEN ZeroInst
        ELSE [opcode |-> opcode, modrm |-> modrm,
              sib |-> IF got_sib THEN code[offset + len2 + 1] ELSE 0,
              length |-> len5]

\* The opcodes that end a block: RET, JMP, CALL.
Terminators == {195, 233, 232}

RECURSIVE AnalyzeFromByteScan(_, _)
\* A block scan that ends at the first terminator byte, wherever it stands.
AnalyzeFromByteScan(code, offset) ==
    IF offset >= Len(code) THEN offset
    ELSE IF code[offset + 1] \in Terminators THEN offset + 1
    ELSE AnalyzeFromByteScan(code, offset + 1)

RECURSIVE AnalyzeFrom(_, _)
\* The loop of analyze_x86_block from `offset` on.
AnalyzeFrom(code, offset) ==
    IF offset >= Len(code) THEN offset
    ELSE LET inst == decode_x86_instruction(code, offset)
         IN  IF inst.length = 0 THEN offset
             ELSE IF inst.opcode \in Terminators THEN offset + inst.length
             ELSE AnalyzeFrom(code, offset + inst.length)

\* analyze_x86_block(code, max_length).
analyze_x86_block(code) == AnalyzeFrom(code, 0)

\* The byte values the slices are made of: NOP, MOV, RET (also a ModR/M byte
\* with mod 3), CALL, and the ModR/M bytes 44 (mod 1, rm 4) and 84 (mod 2,
\* rm 4).
DecoderBytes == {144, 137, 195, 232, 68, 132}

\* The slices of at most n bytes.
ByteSeqs(n) == UNION { [1..k -> DecoderBytes] : k \in 0..n }

NoArgs == [op |-> "none", code |-> <<>>, offset |-> 0]

DcVarsInit ==
    /\ dc_args = NoArgs
    /\ dc_ret = ZeroInst

\* One call of decode_x86_instruction.
DcDecode ==
    /\ dc_args = NoArgs
    /\ \E code \in ByteSeqs(MaxCodeLen) :
           \E offset \in {0, 1, Len(code)} :
               /\ dc_args' = [op |-> "decode", code |-> code, offset |-> offset]
               /\ dc_ret' = decode_x86_instruction(code, offset)
    /\ UNCHANGED <<progVars, sgVars, hsVars>>

DecodeNext == DcDecode

\* The sample program of the translator: NOP; MOV EBX, EAX; ADD EBX, EAX;
\* SUB EAX, EBX; MOVAPS XMM0, XMM1; RET.
ExampleBlock == <<144, 137, 195, 1, 195, 41, 216, 15, 40, 193, 195>>

\* The byte values of the analysed slices: those of the decoder and JMP.
BlockBytes == DecoderBytes \cup {233}

\* The slices handed to analyze_x86_block.
BlockInputs ==
    UNION { [1..k -> BlockBytes] : k \in 0..MaxBlockLen } \cup {ExampleBlock}

\* One call of analyze_x86_block.
DcAnalyze ==
    /\ dc_args = NoArgs
    /\ \E code \in BlockInputs :
           /\ dc_args' = [op |-> "analyze", code |-> code, offset |-> 0]
           /\ dc_ret' = analyze_x86_block(code)
    /\ UNCHANGED <<progVars, sgVars, hsVars>>

AnalyzeNext == DcAnalyze

\* struct TranslationRule.
Rule(opcode, words) == [x86_opcode |-> opcode, arm_opcodes |-> words]

\* create_default_definitions("translation"), in push_back order.
DefaultRules ==
    << Rule(144, <<"D503201F">>), Rule(137, <<"AA0003E0">>),
       Rule(1, <<"8B010000">>), Rule(41, <<"CB010000">>),
       Rule(232, <<"F81F0FE0", "94000000">>),
       Rule(195, <<"F84107E0", "D65F03C0">>), Rule(15, <<"4EA01C00">>) >>

\* The rules a translation file can hold: a line per rule, any number of
\* host words, opcodes free to repeat.
FileRules ==
    { Rule(o, w) : o \in {144, 195},
                   w \in {<<>>, <<"D503201F">>, <<"AA0003E0">>,
                            <<"F84107E0", "D65F03C0">>} }

\* translation_rules after construction: the rules of the file in line
\* order, or the defaults when there is no file.
RuleTables ==
    UNION { [1..k -> FileRules] : k \in 0..MaxRules } \cup {DefaultRules}

\* The opcodes handed to translate_x86_instruction: the seeded ones and FE.
Opcodes == DOMAIN x86_defs \cup {254}

RECURSIVE LastMatch(_, _, _)
\* The words of the rule for `opcode` that stands last among the first i.
LastMatch(rules, opcode, i) ==
    IF i = 0 THEN <<"D503201F">>
    ELSE IF rules[i].x86_opcode = opcode THEN rules[i].arm_opcodes
    ELSE LastMatch(rules, opcode, i - 1)

\* A translation by the last matching rule of the table.
TranslateLastMatch(rules, opcode) == LastMatch(rules, opcode, Len(rules))

RECURSIVE RuleScan(_, _, _)
\* The for loop of translate_x86_instruction from rule i on.
RuleScan(rules, opcode, i) ==
    IF i > Len(rules) THEN <<"D503201F">>
    ELSE IF rules[i].x86_opcode = opcode THEN rules[i].arm_opcodes
    ELSE RuleScan(rules, opcode, i + 1)

\* translate_x86_instruction(x86_inst) over translation_rules.
translate_x86_instruction(rules, opcode) == RuleScan(rules, opcode, 1)

\* One call of translate_x86_instruction.
DcTranslate ==
    /\ dc_args = NoArgs
    /\ \E rules \in RuleTables : \E opcode \in Opcodes :
           /\ dc_args' = [op |-> "translate", code |-> <<opcode>>, offset |-> 0,
                          rules |-> rules]
           /\ dc_ret' = translate_x86_instruction(rules, opcode)
    /\ UNCHANGED <<progVars, sgVars, hsVars>>

TranslateNext == DcTranslate

\* ------------------------------------------------ signatures
\* calculate_hash: XXH64 of the bytes, seed 0. The digest is kept as a term
\* over the bytes; different byte sequences of the model have different
\* digests.
calculate_hash(code) == <<"xxh64", code>>

\* A comparison in which every non-zero mask byte is significant.
CompareNonZeroMask(block1, block2, mask) ==
    IF Len(block1) # Len(block2) \/ Len(block1) # Len(mask) THEN <<0, 1>>
    ELSE LET significant == { i \in 1..Len(block1) : mask[i] # 0 }
             matches == Cardinality({ i \in significant : block1[i] = block2[i] })
             total == Cardinality(significant)
         IN  IF total > 0 THEN <<matches, total>> ELSE <<0, 1>>

\* compare_blocks_with_mask: the quotient matches / total as the pair
\* <<matches, total>>, and 0.0f as <<0, 1>>.
compare_blocks_with_mask(block1, block2, mask) ==
    IF Len(block1) # Len(block2) \/ Len(block1) # Len(mask) THEN <<0, 1>>
    ELSE LET significant == { i \in 1..Len(block1) : mask[i] = 1 }
             matches == Cardinality({ i \in significant : block1[i] = block2[i] })
             total == Cardinality(significant)
         IN  IF total > 0 THEN <<matches, total>> ELSE <<0, 1>>

\* similarity >= similarity_threshold, the threshold in hundredths. For the
\* lengths of the model the float quotient and the float threshold compare
\* as the exact quotients do.
AtLeast(similarity, threshold) ==
    similarity[1] * 100 >= threshold * similarity[2]

\* create_signature.
create_signature(code, type, address, mask, similarity_threshold) ==
    [hash |-> calculate_hash(code), type |-> type, address |-> address,
     size |-> Len(code), mask |-> mask,
     similarity_threshold |-> similarity_threshold]

\* BlockSignature(): a value-initialised signature.
NullSignature ==
    [hash |-> <<"xxh64", <<>>>>, type |-> "GENERIC", address |-> 0, size |-> 0,
     mask |-> <<>>, similarity_threshold |-> 0]

\* An insertion that keeps the entry a fingerprint already has.
AddIfAbsent(db, signature) ==
    IF signature.hash \in DOMAIN db THEN db ELSE (signature.hash :> signature) @@ db

\* add_signature: signature_db[signature.hash] = signature.
add_signature(db, signature) ==
    IF signature.hash \in DOMAIN db THEN [db EXCEPT ![signature.hash] = signature]
    ELSE (signature.hash :> signature) @@ db

\* PUSH RBP; MOV RBP, RSP; RET, and two blocks that agree with it in four
\* and in two of five bytes; a one-byte block.
Ref1 == <<85, 72, 137, 229, 195>>
Near1 == <<85, 72, 137, 229, 144>>
Far1 == <<85, 72, 0, 0, 144>>
Short1 == <<195>>

\* Host memory of the process: the buffers that stay alive, by address.
HostMemory == (4096 :> Ref1) @@ (8192 :> Short1)

\* The address of the live buffer that holds `code`.
HostAddr(code) == CHOOSE a \in DOMAIN HostMemory : HostMemory[a] = code

\* Guest addresses: entry points of loaded binaries.
GuestAddrs == {0}

\* The bytes read through reinterpret_cast<const uint8_t*>(address): those
\* of the live buffer at a host address; at any other address the read is
\* undefined, and delivers what the host holds there.
ReadHost(address, n) ==
    IF address \in DOMAIN HostMemory /\ n <= Len(HostMemory[address])
    THEN { SubSeq(HostMemory[address], 1, n) }
    ELSE { [i \in 1..n |-> b] : b \in {0, 144} }

\* The signatures callers build with create_signature and hand to
\* add_signature.
SigCodes == {Ref1, Short1}
SigMasks == { <<1, 1, 1, 1, 1>>, <<1, 1, 0, 0, 1>>, <<1>> }
Thresholds == {80, 90}

\* The iterations of find_functions: the offsets i < size - 3 that hold
\* 55 48 89 E5, each with the end after the next C3 (or the end of the
\* binary).
RECURSIVE FunctionEnd(_, _)
FunctionEnd(binary, end) ==
    IF end >= Len(binary) THEN end
    ELSE IF binary[end + 1] = 195 THEN end + 1
    ELSE FunctionEnd(binary, end + 1)

find_functions(binary, base_address) ==
    { <<base_address + i, FunctionEnd(binary, i + 4) - i>> :
        i \in { x \in 0..(Len(binary) - 4) :
                   /\ binary[x + 1] = 85 /\ binary[x + 2] = 72
                   /\ binary[x + 3] = 137 /\ binary[x + 4] = 229 } }

\* The mask of a function's code: all ones, the offset bytes after a short
\* conditional jump (one byte) or after E8 / E9 (four bytes) zeroed.
FunctionMask(code) ==
    [k \in 1..Len(code) |->
        IF \E i \in 1..(Len(code) - 1) :
              /\ i < k
              /\ \/ code[i] \in 112..127 /\ k - i <= 1
                 \/ code[i] \in {232, 233} /\ k - i <= 4
        THEN 0 ELSE 1]

\* analyze_and_generate_signatures: one FUNCTION signature per function
\* found. The binaries of the model hold no DEC EAX; JNZ pair, so find_loops
\* finds nothing.
analyze_and_generate_signatures(binary, base_address) ==
    { LET code == SubSeq(binary, (f[1] - base_address) + 1,
                                 (f[1] - base_address) + f[2])
      IN  [hash |-> calculate_hash(code), type |-> "FUNCTION",
           address |-> f[1], size |-> f[2], mask |-> FunctionMask(code),
           similarity_threshold |-> 85] :
      f \in find_functions(binary, base_address) }

\* The binaries handed to load_binary.
Binaries == { Ref1, <<144>> \o Ref1, <<85, 72, 137, 229, 232, 195>> }

\* The signature files: none, or a count and the records that follow it.
\* A record's mask length is a field of its own.
FileSigs ==
    { [hash |-> calculate_hash(Ref1), type |-> "FUNCTION", address |-> 0,
       size |-> 5, mask |-> m, similarity_threshold |-> 85] :
      m \in { <<1, 1, 1, 1, 1>>, <<1>> } }
SigFiles ==
    { [present |-> FALSE, sigs |-> <<>>] } \cup
    { [present |-> TRUE, sigs |-> <<r>>] : r \in FileSigs }

\* The blocks looked up with find_match.
Queries == {Ref1, Near1, Far1, Short1}

NoSigCall == [op |-> "none", code |-> <<>>, hit |-> FALSE, sig |-> NullSignature,
           prior |-> FALSE]

SgVarsInit ==
    /\ signature_db = <<>>
    /\ match_cache = <<>>
    /\ sg_last = NoSigCall

\* add_signature(create_signature(code, type, address, mask, threshold)).
SgAddCall ==
    \E code \in SigCodes, mask \in SigMasks, threshold \in Thresholds :
        \E address \in {HostAddr(code)} \cup GuestAddrs :
            LET s == create_signature(code, "GENERIC", address, mask, threshold)
            IN  /\ signature_db' = add_signature(signature_db, s)
                /\ sg_last' = [op |-> "add", code |-> code, hit |-> FALSE,
                               sig |-> s,
                               prior |-> s.hash \in DOMAIN signature_db]
                /\ UNCHANGED match_cache

SgAdd ==
    /\ SgAddCall
    /\ Cardinality(DOMAIN signature_db') <= MaxSigs
    /\ UNCHANGED <<progVars, dcVars, hsVars>>

RECURSIVE AddAll(_, _)
\* The loop of load_binary over the analyser's signatures.
AddAll(db, sigs) ==
    IF sigs = {} THEN db
    ELSE LET s == CHOOSE x \in sigs : TRUE
         IN  AddAll(add_signature(db, s), sigs \ {s})

\* load_binary: the static analysis and the insertion of its signatures.
SgLoadBinary ==
    /\ \E binary \in Binaries, base \in GuestAddrs :
           /\ signature_db' =
                  AddAll(signature_db,
                         analyze_and_generate_signatures(binary, base))
           /\ sg_last' = [NoSigCall EXCEPT !.op = "load_binary", !.code = binary]
    /\ Cardinality(DOMAIN signature_db') <= MaxSigs
    /\ UNCHANGED match_cache
    /\ UNCHANGED <<progVars, dcVars, hsVars>>

RECURSIVE LoadAll(_, _, _)
\* The loop of load_signatures from record i on.
LoadAll(db, sigs, i) ==
    IF i > Len(sigs) THEN db
    ELSE LoadAll(add_signature(db, sigs[i]), sigs, i + 1)

\* load_signatures(filename).
SgLoad ==
    /\ \E file \in SigFiles :
           /\ signature_db' = IF file.present
                               THEN LoadAll(signature_db, file.sigs, 1)
                               ELSE signature_db
           /\ sg_last' = [NoSigCall EXCEPT !.op = "load", !.hit = file.present]
    /\ Cardinality(DOMAIN signature_db') <= MaxSigs
    /\ UNCHANGED match_cache
    /\ UNCHANGED <<progVars, dcVars, hsVars>>

\* What the fuzzy loop of find_match can read as reference bytes of each
\* stored signature.
ReadChoices(db) ==
    { r \in [DOMAIN db ->
               UNION { ReadHost(db[h].address, db[h].size) : h \in DOMAIN db }] :
        \A h \in DOMAIN db : r[h] \in ReadHost(db[h].address, db[h].size) }

\* The signatures the fuzzy loop accepts for `code`, given the bytes read.
Accepted(db, code, reads) ==
    { h \in DOMAIN db :
        /\ db[h].size = Len(code)
        /\ AtLeast(compare_blocks_with_mask(code, reads[h], db[h].mask),
                   db[h].similarity_threshold) }

\* find_match(code): the memo, then the exact fingerprint, then the fuzzy
\* loop, which returns the first accepted signature in the iteration order
\* of the unordered map and records it in the memo.
SgFind ==
    /\ \E code \in Queries :
         LET hash == calculate_hash(code)
             found(s) == [op |-> "find", code |-> code, hit |-> TRUE,
                          sig |-> s, prior |-> FALSE]
         IN  IF hash \in DOMAIN match_cache
                /\ match_cache[hash] \in DOMAIN signature_db
             THEN /\ sg_last' = found(signature_db[match_cache[hash]])
                  /\ UNCHANGED match_cache
             ELSE IF hash \in DOMAIN signature_db
             THEN /\ sg_last' = found(signature_db[hash])
                  /\ UNCHANGED match_cache
             ELSE \E reads \in ReadChoices(signature_db) :
                    LET A == Accepted(signature_db, code, reads)
                    IN  IF A # {}
                        THEN \E h \in A :
                               /\ match_cache' =
                                      (hash :> signature_db[h].hash) @@ match_cache
                               /\ sg_last' = found(signature_db[h])
                        ELSE /\ sg_last' = [NoSigCall EXCEPT !.op = "find",
                                                           !.code = code]
                             /\ UNCHANGED match_cache
    /\ UNCHANGED signature_db
    /\ UNCHANGED <<progVars, dcVars, hsVars>>

\* clear().
SgClear ==
    /\ signature_db' = <<>>
    /\ match_cache' = <<>>
    /\ sg_last' = [NoSigCall EXCEPT !.op = "clear"]
    /\ UNCHANGED <<progVars, dcVars, hsVars>>

SignatureNext == SgAdd \/ SgLoadBinary \/ SgLoad \/ SgFind \/ SgClear

\* ------------------------------------------------ signatures: masks
\* The byte sequences of at most n bytes over two byte values.
VarBytes == {85, 144}
Variants(n) == UNION { [1..k -> VarBytes] : k \in 0..n }

\* The lists of at most n elements of S.
Lists(S, n) == UNION { [1..k -> S] : k \in 0..n }

RECURSIVE MaskLoopSkipping(_, _, _)
\* A mask loop that passes over a variant of another length.
MaskLoopSkipping(code_variants, mask, i) ==
    IF i > Len(code_variants) THEN mask
    ELSE IF Len(code_variants[i]) # Len(code_variants[1])
         THEN MaskLoopSkipping(code_variants, mask, i + 1)
    ELSE MaskLoopSkipping(code_variants,
                  [j \in 1..Len(mask) |->
                      IF code_variants[1][j] # code_variants[i][j] THEN 0
                      ELSE mask[j]],
                  i + 1)

RECURSIVE MaskLoop(_, _, _)
\* The loop of generate_mask from variant i on (i = 2 is the source's
\* i = 1), with the mask built so far.
MaskLoop(code_variants, mask, i) ==
    IF i > Len(code_variants) THEN mask
    ELSE IF Len(code_variants[i]) # Len(code_variants[1])
         THEN [j \in 1..Len(code_variants[1]) |-> 0]
    ELSE MaskLoop(code_variants,
                  [j \in 1..Len(mask) |->
                      IF code_variants[1][j] # code_variants[i][j] THEN 0
                      ELSE mask[j]],
                  i + 1)

\* generate_mask(code_variants).
generate_mask(code_variants) ==
    IF code_variants = <<>> THEN <<>>
    ELSE MaskLoop(code_variants, [j \in 1..Len(code_variants[1]) |-> 1], 2)

\* One call of generate_mask.
DcMask ==
    /\ dc_args = NoArgs
    /\ \E code_variants \in Lists(Variants(MaxVarLen), MaxVariants) :
           /\ dc_args' = [op |-> "generate_mask", code |-> code_variants,
                          offset |-> 0]
           /\ dc_ret' = generate_mask(code_variants)
    /\ UNCHANGED <<progVars, sgVars, hsVars>>

MaskNext == DcMask

\* The masks handed to compare_blocks_with_mask: bytes 0, 1 and 2.
MaskValues == UNION { [1..k -> {0, 1, 2}] : k \in 0..MaxVarLen }

\* One call of compare_blocks_with_mask.
DcCompare ==
    /\ dc_args = NoArgs
    /\ \E block1 \in Variants(MaxVarLen), block2 \in Variants(MaxVarLen),
          mask \in MaskValues :
           /\ dc_args' = [op |-> "compare", code |-> <<block1, block2, mask>>,
                          offset |-> 0]
           /\ dc_ret' = compare_blocks_with_mask(block1, block2, mask)
    /\ UNCHANGED <<progVars, sgVars, hsVars>>

CompareNext == DcCompare

\* ------------------------------------------------ signatures: patterns
\* The start offsets at which `pattern` stands in `block`.
Matches(block, pattern) ==
    { other_start \in 0..(Len(block) - Len(pattern)) :
        SubSeq(block, other_start + 1, other_start + Len(pattern)) = pattern }

\* occurrences: the pattern itself, then one copy for every match in every
\* other block.
Occurrences(code_blocks, i, pattern) ==
    LET found == { <<j, o>> \in (1..Len(code_blocks)) \X (0..MaxPatBlock) :
                     j # i /\ o \in Matches(code_blocks[j], pattern) }
    IN  [k \in 1..(1 + Cardinality(found)) |-> pattern]

\* The iterations of the loops over i, pattern_len and start, as triples
\* <<i, pattern_len, start>> (i counted from 1).
PatternLoops(code_blocks) ==
    { x \in (1..Len(code_blocks)) \X (min_pattern_length..MaxPatBlock)
                                 \X (0..MaxPatBlock) :
        /\ x[2] <= Len(code_blocks[x[1]]) \div 2
        /\ x[3] + x[2] <= Len(code_blocks[x[1]]) }

\* The pattern of an iteration.
PatternAt(code_blocks, x) == SubSeq(code_blocks[x[1]], x[3] + 1, x[3] + x[2])

\* identify_patterns(code_blocks, addresses): the signatures pushed, as a
\* set.
identify_patterns(code_blocks, addresses) ==
    { create_signature(PatternAt(code_blocks, x), "GENERIC",
                       addresses[x[1]] + x[3],
                       generate_mask(Occurrences(code_blocks, x[1],
                                                 PatternAt(code_blocks, x))),
                       90) :
      x \in { y \in PatternLoops(code_blocks) :
                 Len(Occurrences(code_blocks, y[1], PatternAt(code_blocks, y))) >= 3 } }

\* The base addresses of the blocks.
BlockAddresses == [i \in 1..MaxBlocks |-> 4096 * i]

\* One call of identify_patterns.
DcPatterns ==
    /\ dc_args = NoArgs
    /\ \E code_blocks \in Lists(Variants(MaxPatBlock), MaxBlocks) :
           /\ dc_args' = [op |-> "identify_patterns", code |-> code_blocks,
                          offset |-> 0]
           /\ dc_ret' = identify_patterns(code_blocks, BlockAddresses)
    /\ UNCHANGED <<progVars, sgVars, hsVars>>

PatternsNext == DcPatterns

\* ------------------------------------------------ hash
\* A uint64_t is kept as its eight bytes, low byte first (the order memcpy
\* gives on the little-endian hosts the program is built for).
\* PRIME64_1 = 11400714785074694791 (0x9E3779B185EBCA87), low byte first.
PRIME64_1 == <<135, 202, 235, 133, 177, 121, 55, 158>>

\* PRIME64_2 = 14029467366897019727 (0xC2B2AE3D27D4EB4F), low byte first.
PRIME64_2 == <<79, 235, 212, 39, 61, 174, 178, 194>>

\* PRIME64_3 = 1609587929392839161 (0x165667B19E3779F9), low byte first.
PRIME64_3 == <<249, 121, 55, 158, 177, 103, 86, 22>>

\* PRIME64_4 = 9650029242287828579 (0x85EBCA77C2B2AE63), low byte first.
PRIME64_4 == <<99, 174, 178, 194, 119, 202, 235, 133>>

\* PRIME64_5 = 2870177450012600261 (0x27D4EB2F165667C5), low byte first.
PRIME64_5 == <<197, 103, 86, 22, 47, 235, 212, 39>>

\* The uint64_t of a natural number below 2^31.
Word(n) ==
    <<n % 256, (n \div 256) % 256, (n \div 65536) % 256, n \div 16777216,
      0, 0, 0, 0>>

\* The eight bytes f(1), ..., f(8) as a uint64_t.
Bytes8(f(_)) == <<f(1), f(2), f(3), f(4), f(5), f(6), f(7), f(8)>>

RECURSIVE Carry(_, _, _)
\* The bytes of the column sums cols from byte i on, with carry c in;
\* a carry out of the eighth byte is dropped (arithmetic modulo 2^64).
Carry(cols, i, c) ==
    IF i > 8 THEN <<>>
    ELSE <<(cols[i] + c) % 256>> \o Carry(cols, i + 1, (cols[i] + c) \div 256)

\* a + b on uint64_t.
Add64(a, b) ==
    LET sum(i) == a[i] + b[i]
    IN  Carry(Bytes8(sum), 1, 0)

\* a - b on uint64_t.
Sub64(a, b) ==
    LET not(i) == 255 - b[i]
    IN  Add64(a, Add64(Bytes8(not), Word(1)))

RECURSIVE Column(_, _, _, _)
\* The sum of a[i] * b[k + 1 - i] for i in 1..n.
Column(a, b, k, n) ==
    IF n = 0 THEN 0 ELSE a[n] * b[k + 1 - n] + Column(a, b, k, n - 1)

\* a * b on uint64_t.
Mul64(a, b) ==
    LET col(k) == Column(a, b, k, k)
    IN  Carry(Bytes8(col), 1, 0)

RECURSIVE XorByte(_, _, _)
\* x ^ y on the bits k..7 of two bytes.
XorByte(x, y, k) ==
    IF k > 7 THEN 0
    ELSE (((x \div (2 ^ k)) + (y \div (2 ^ k))) % 2) * (2 ^ k) + XorByte(x, y, k + 1)

\* a ^ b on uint64_t.
Xor64(a, b) ==
    LET xor(i) == XorByte(a[i], b[i], 0)
    IN  Bytes8(xor)

\* XXH_rotl64(x, r), 0 < r < 64.
XXH_rotl64(x, r) ==
    LET q == r \div 8
        s == r % 8
        at(i) == x[((i + 16) % 8) + 1]
        byte(i) == ((at(i - 1 - q) * (2 ^ s)) % 256) + (at(i - 2 - q) \div (2 ^ (8 - s)))
    IN  Bytes8(byte)

\* x >> r on uint64_t, 0 < r < 64.
Shr64(x, r) ==
    LET q == r \div 8
        s == r % 8
        at(i) == IF i <= 8 THEN x[i] ELSE 0
        byte(i) == (at(i + q) \div (2 ^ s)) + ((at(i + q + 1) * (2 ^ (8 - s))) % 256)
    IN  Bytes8(byte)

\* XXH_read64(p) with p at byte offset `off` of `bytes`.
XXH_read64(bytes, off) == SubSeq(bytes, off + 1, off + 8)

\* XXH64_round(acc, input).
XXH64_round(acc, input) ==
    Mul64(XXH_rotl64(Add64(acc, Mul64(input, PRIME64_2)), 31), PRIME64_1)

\* XXH64_mergeRound(acc, val).
XXH64_mergeRound(acc, val) ==
    Add64(Mul64(Xor64(acc, XXH64_round(Word(0), val)), PRIME64_1), PRIME64_4)

\* One pass of the do-while body: the four lanes over the 32 bytes at `off`.
Stripe(v, bytes, off) ==
    [v1 |-> XXH64_round(v.v1, XXH_read64(bytes, off)),
     v2 |-> XXH64_round(v.v2, XXH_read64(bytes, off + 8)),
     v3 |-> XXH64_round(v.v3, XXH_read64(bytes, off + 16)),
     v4 |-> XXH64_round(v.v4, XXH_read64(bytes, off + 24))]

\* F(x), with x evaluated first: the statements of the source run one after
\* the other, each on the value the one before it left.
Then(x, F(_)) == IF x = x THEN F(x) ELSE F(x)

RECURSIVE Stripes(_, _, _)
\* do { ... } while (p <= limit): the stripes of `bytes` from offset `off`
\* on, as long as 32 bytes are left.
Stripes(v, bytes, off) ==
    IF off + 32 > Len(bytes) THEN v
    ELSE Then(Stripe(v, bytes, off), LAMBDA w : Stripes(w, bytes, off + 32))

\* The lanes after seeding.
Lanes(seed) ==
    [v1 |-> Add64(Add64(seed, PRIME64_1), PRIME64_2),
     v2 |-> Add64(seed, PRIME64_2),
     v3 |-> Add64(seed, Word(0)),
     v4 |-> Sub64(seed, PRIME64_1)]

\* h64 of the four lanes: the rotated sum and the four merge rounds.
Converge(v) ==
    Then(Add64(Add64(XXH_rotl64(v.v1, 1), XXH_rotl64(v.v2, 7)),
               Add64(XXH_rotl64(v.v3, 12), XXH_rotl64(v.v4, 18))),
         LAMBDA h0 :
           Then(XXH64_mergeRound(h0, v.v1),
                LAMBDA h1 :
                  Then(XXH64_mergeRound(h1, v.v2),
                       LAMBDA h2 :
                         Then(XXH64_mergeRound(h2, v.v3),
                              LAMBDA h3 : XXH64_mergeRound(h3, v.v4)))))

\* The step of the loop over groups of eight bytes, at offset p.
Step8(h64, bytes, p) ==
    Add64(Mul64(XXH_rotl64(Xor64(h64, XXH64_round(Word(0), XXH_read64(bytes, p))),
                           27),
                PRIME64_1),
          PRIME64_4)

\* The step for a group of four bytes (a uint32_t), at offset p.
Step4(h64, bytes, p) ==
    Add64(Mul64(XXH_rotl64(Xor64(h64,
                                 Mul64(SubSeq(bytes, p + 1, p + 4) \o <<0, 0, 0, 0>>,
                                       PRIME64_1)),
                           23),
                PRIME64_2),
          PRIME64_3)

\* The step of the loop over single bytes, at offset p.
Step1(h64, bytes, p) ==
    Mul64(XXH_rotl64(Xor64(h64, Mul64(Word(bytes[p + 1]), PRIME64_5)), 11),
          PRIME64_1)

RECURSIVE Remainder(_, _, _, _)
\* The remaining 0-31 bytes of `bytes` from offset p on: groups of eight
\* while they last, then (phase 1) at most one group of four, then (phase 2)
\* single bytes.
Remainder(h64, bytes, p, phase) ==
    IF phase = 0 /\ p + 8 <= Len(bytes)
    THEN Then(Step8(h64, bytes, p), LAMBDA h : Remainder(h, bytes, p + 8, 0))
    ELSE IF phase <= 1 /\ p + 4 <= Len(bytes)
    THEN Then(Step4(h64, bytes, p), LAMBDA h : Remainder(h, bytes, p + 4, 2))
    ELSE IF p < Len(bytes)
    THEN Then(Step1(h64, bytes, p), LAMBDA h : Remainder(h, bytes, p + 1, 2))
    ELSE h64

\* The final avalanche.
Avalanche(h64) ==
    LET a == Mul64(Xor64(h64, Shr64(h64, 33)), PRIME64_2)
        b == Mul64(Xor64(a, Shr64(a, 29)), PRIME64_3)
    IN  Xor64(b, Shr64(b, 32))

\* XXH64(input, len, seed), one shot.
XXH64(input, seed) ==
    LET len == Len(input)
        body == IF len >= 32 THEN Converge(Stripes(Lanes(seed), input, 0))
                ELSE Add64(seed, PRIME64_5)
    IN  Then(Add64(body, Word(len)),
             LAMBDA h0 :
               Then(Remainder(h0, input, 32 * (len \div 32), 0), Avalanche))

\* XXH64_reset(state, seed).
XXH64_reset(seed) ==
    [total_len |-> 0, v |-> Lanes(seed), mem |-> <<>>, memsize |-> 0]

\* An update that stores what it is given over the bytes already buffered.
UpdateDroppingBuffer(state, input) ==
    LET len == Len(input)
        v == Stripes(state.v, input, 0)
        rest == SubSeq(input, 32 * (len \div 32) + 1, len)
    IN  [total_len |-> state.total_len + len, v |-> v,
         mem |-> IF rest # <<>> THEN rest ELSE state.mem,
         memsize |-> IF rest # <<>> THEN Len(rest) ELSE state.memsize]

\* An update that only buffers: it appends what it is given to the buffer
\* and consumes no stripe.
UpdateBufferingAll(state, input) ==
    [total_len |-> state.total_len + Len(input),
     v |-> state.v,
     mem |-> state.mem \o input,
     memsize |-> state.memsize + Len(input)]

\* XXH64_update(state, input, len) with a non-null input. mem holds the
\* first memsize bytes of mem64.
XXH64_update(state, input) ==
    LET len == Len(input)
        remaining == 32 - state.memsize
        to_copy == IF state.memsize # 0
                   THEN (IF len < remaining THEN len ELSE remaining)
                   ELSE 0
        filled == state.mem \o SubSeq(input, 1, to_copy)
        full == state.memsize # 0 /\ state.memsize + to_copy = 32
        v1 == IF full THEN Stripe(state.v, filled, 0) ELSE state.v
        mem1 == IF full THEN <<>> ELSE filled
        memsize1 == IF full THEN 0 ELSE state.memsize + to_copy
        v2 == Stripes(v1, input, to_copy)
        p == to_copy + 32 * ((len - to_copy) \div 32)
    IN  [total_len |-> state.total_len + len,
         v |-> v2,
         mem |-> IF p < len THEN SubSeq(mem1, 1, memsize1) \o SubSeq(input, p + 1, len)
                 ELSE mem1,
         memsize |-> IF p < len THEN memsize1 + (len - p) ELSE memsize1]

\* XXH64_digest(state).
XXH64_digest(state) ==
    LET body == IF state.total_len >= 32 THEN Converge(state.v)
                ELSE Add64(state.v.v3, PRIME64_5)
    IN  Then(Add64(body, Word(state.total_len)),
             LAMBDA h0 :
               Then(Remainder(h0, SubSeq(state.mem, 1, state.memsize), 0, 0),
                    Avalanche))

\* The seeds, and the byte at position k (from 1) of the hashed data.
Seeds == { Word(0), PRIME64_3 }
DataByte(k) == (k * 151 + 7) % 256

\* Before XXH64_reset: no state, nothing fed.
NoHash == [total_len |-> 0, v |-> Lanes(Word(0)), mem |-> <<>>, memsize |-> 0]
NoInput == [bytes |-> <<>>, chunks |-> 0, straddled |-> FALSE, reset |-> FALSE]

HsVarsInit ==
    /\ xxh_state = NoHash
    /\ xxh_input = NoInput
    /\ xxh_seed = Word(0)

\* XXH64_reset(&state, seed).
HsReset ==
    /\ ~xxh_input.reset
    /\ \E seed \in Seeds :
           /\ xxh_state' = XXH64_reset(seed)
           /\ xxh_seed' = seed
    /\ xxh_input' = [NoInput EXCEPT !.reset = TRUE]
    /\ UNCHANGED <<progVars, dcVars, sgVars>>

\* XXH64_update(&state, chunk, n) on the next n bytes of the data.
HsUpdate ==
    /\ xxh_input.reset
    /\ xxh_input.chunks < MaxChunks
    /\ \E n \in 0..(MaxHashLen - Len(xxh_input.bytes)) :
         LET from == Len(xxh_input.bytes)
             chunk == [k \in 1..n |-> DataByte(from + k)]
         IN  /\ xxh_state' = XXH64_update(xxh_state, chunk)
             /\ xxh_input' =
                    [xxh_input EXCEPT
                       !.bytes = @ \o chunk,
                       !.chunks = @ + 1,
                       !.straddled = @ \/ (from % 32 # 0 /\ (from % 32) + n > 32)]
    /\ UNCHANGED xxh_seed
    /\ UNCHANGED <<progVars, dcVars, sgVars>>

HashNext == HsReset \/ HsUpdate

Init ==
    /\ PMVarsInit /\ CacheVarsInit /\ TrVarsInit /\ LkVarsInit /\ MtVarsInit
    /\ DcVarsInit /\ SgVarsInit /\ HsVarsInit

SpecCache == Init /\ [][CacheNext]_vars

SpecCacheIntegrity == Init /\ [][CacheIntegrityNext]_vars

SpecPersistence == Init /\ [][PMNext]_vars

SpecTranslator == Init /\ [][TrNext]_vars

SpecConcurrentLookup == Init /\ [][ConcurrentNext]_vars

SpecMaintenance == Init /\ [][MaintenanceNext]_vars

SpecDecode == Init /\ [][DecodeNext]_vars

SpecAnalyze == Init /\ [][AnalyzeNext]_vars

SpecTranslate == Init /\ [][TranslateNext]_vars

SpecSignatures == Init /\ [][SignatureNext]_vars

SpecMask == Init /\ [][MaskNext]_vars

SpecCompare == Init /\ [][CompareNext]_vars

SpecPatterns == Init /\ [][PatternsNext]_vars

SpecHash == Init /\ [][HashNext]_vars

\* ------------------------------------------------ load_binary
\* generate_binary_id: hex(XXH64(binary)) "_" decimal(clock reading). Hex
\* digits hold no "_", so two ids are equal exactly when fingerprint and
\* reading both are; the id is kept as that pair.
generate_binary_id(binary, now) == <<calculate_hash(binary), now>>

\* cache_directory + "/" + binary_id + ".cache".
CacheFileOf(binary_id) == <<"./cache", "/", binary_id, ".cache">>

\* initialize_for_binary: a fresh id, registered in binary_cache_map, returned.
initialize_for_binary(map, binary, now) ==
    LET binary_id == generate_binary_id(binary, now)
    IN  [binary_id |-> binary_id,
         binary_cache_map |->
            [k \in DOMAIN map \cup {binary_id} |->
                IF k = binary_id THEN CacheFileOf(binary_id) ELSE map[k]]]

\* EnhancedTranslator::load_binary, the facade of cache.h: it keeps the id
\* initialize_for_binary returned and leaves rip alone.
LoadBinaryKeepingId(binary, entry, now1, now2) ==
    IF Len(binary) > GuestSize
    THEN [loaded |-> FALSE, rip |-> 0, current_binary_id |-> <<>>,
          binary_cache_map |-> <<>>]
    ELSE LET init == initialize_for_binary(<<>>, binary, now2)
         IN  [loaded |-> TRUE, rip |-> 0,
              current_binary_id |-> init.binary_id,
              binary_cache_map |-> init.binary_cache_map]

\* MiniRosettaTranslator::load_binary on a fresh translator, now1 and now2
\* the clock readings of its two generate_binary_id calls (its own, and the
\* one inside initialize_for_binary, whose return value it drops): what it
\* leaves in rip, current_binary_id and the cache's binary_cache_map. The
\* copy into guest memory is in TrRun, the signatures in SgLoadBinary.
load_binary(binary, entry, now1, now2) ==
    IF Len(binary) > GuestSize
    THEN [loaded |-> FALSE, rip |-> 0, current_binary_id |-> <<>>,
          binary_cache_map |-> <<>>]
    ELSE [loaded |-> TRUE, rip |-> entry,
          current_binary_id |-> generate_binary_id(binary, now1),
          binary_cache_map |->
              initialize_for_binary(<<>>, binary, now2).binary_cache_map]

\* One call of load_binary; the clock does not run backwards between the
\* two readings, and may stand still.
DcLoadBinary ==
    /\ dc_args = NoArgs
    /\ \E binary \in ByteSeqs(MaxBinaryLen) :
           \E now1 \in 0..MaxClock : \E now2 \in now1..MaxClock :
               /\ dc_args' = [op |-> "load_binary", code |-> binary, offset |-> 0,
                              now |-> <<now1, now2>>]
               /\ dc_ret' = load_binary(binary, 0, now1, now2)
    /\ UNCHANGED <<progVars, sgVars, hsVars>>

LoadBinaryNext == DcLoadBinary

SpecLoadBinary == Init /\ [][LoadBinaryNext]_vars

\* ------------------------------------------------ facade over the cache
\* The programs load_binary copies into guest memory: a NOP block or a RET
\* block in every slot.
Programs == [1..GuestSlots -> {CodeNop, CodeRet}]

\* load_binary(program, size, 0) on a fresh translator; bid is BinaryId when
\* the facade's id is the one the cache registered.
FbLoad(program, bid) ==
    /\ tpc = "idle"
    /\ current_binary_id = ""
    /\ x86_memory' = program
    /\ rip' = 0
    /\ entry_point' = 0
    /\ current_binary_id' = bid
    /\ UNCHANGED <<tpc, prog_size, tr_entry, execution_count, static_execution_count,
                   dispatch_log, ckpt_log, oob, runs>>
    /\ UNCHANGED <<pmVars, cacheVars, auxVars>>

\* A call of the public find_or_translate_block(x86_addr, entry_point) after
\* the load.
FbFind(x86_addr) ==
    /\ tpc = "idle"
    /\ current_binary_id # ""
    /\ lookups < MaxFinds
    /\ lookups' = lookups + 1
    /\ FindOrTranslate(x86_addr, entry_point)
    /\ UNCHANGED <<last, stored_at, ins_log, reaccessed, corrupted, promo>>
    /\ UNCHANGED <<tpc, rip, entry_point, prog_size, x86_memory, current_binary_id,
                   execution_count, static_execution_count, dispatch_log,
                   ckpt_log, runs>>
    /\ UNCHANGED <<pmVars, auxVars>>

\* find_or_translate_block on the blocks of the program, with the cache's
\* checkpoint (as EnhancedTranslator::checkpoint calls it) and clear.
FindBlockNext ==
    \/ \E program \in Programs, bid \in BinaryIds : FbLoad(program, bid)
    \/ \E k \in 0..(GuestSlots - 1) : FbFind(k * RIP_STEP)
    \/ Checkpoint
    \/ Clear

SpecFindBlock == Init /\ [][FindBlockNext]_vars

\* ------------------------------------------------ tier-2 miss: specification
\* Two blocks at one guest address with different bytes, so that the file
\* may hold a record with the address looked up and another fingerprint.
MissBlocks == { b \in Blocks : b.x86_addr = 1 }

\* The cache on these blocks, with damage to the magic number or the
\* version of the file's header.
MissNext ==
    \/ \E b \in MissBlocks : Store(b)
    \/ \E bid \in BinaryIds, b \in MissBlocks : Lookup(bid, b)
    \/ Checkpoint
    \/ Clear
    \/ \E field \in {"magic", "version"} : CorruptHeader(field)

SpecCacheMiss == Init /\ [][MissNext]_vars

\* ------------------------------------------------ write_to_file: specification
\* Jobs to one file whose payloads and offsets overlap: a whole-file write, a
\* write inside the file, one at its end and one beyond its end.
WriteInputs ==
    { [cache_file |-> GoodPath, data |-> <<97, 98, 99>>, offset |-> 0, callback |-> "none"],
      [cache_file |-> GoodPath, data |-> <<100>>, offset |-> 1, callback |-> "none"],
      [cache_file |-> GoodPath, data |-> <<101>>, offset |-> 0, callback |-> "none"],
      [cache_file |-> GoodPath, data |-> <<102, 103>>, offset |-> 2, callback |-> "none"],
      [cache_file |-> GoodPath, data |-> <<104>>, offset |-> 5, callback |-> "none"] }

WriteNext ==
    \/ \E in \in WriteInputs : QueueWrite(in)
    \/ QueueWriteNotify
    \/ WorkerStep

SpecWriteFile == Init /\ [][WriteNext]_vars

\* The worker's steps inside its critical section, up to the release of
\* queue_mutex.
WorkerCritical == WorkerPredicate \/ WorkerBlock \/ WorkerPop

\* The translator's thread gets queue_mutex whenever it is free again and
\* again; the worker leaves its critical sections, and beyond that may be
\* arbitrarily slow (it need never get through a write).
FairSpecTranslator ==
    SpecTranslator /\ SF_vars(TrStep) /\ WF_vars(WorkerCritical)

\* Both threads are scheduled fairly: a thread that can take its next step
\* eventually does. Starting a new foreground call and spurious wake-ups are
\* not forced.
FairSpecPersistence ==
    SpecPersistence /\ WF_vars(WorkerStep) /\ WF_vars(ForegroundContinue)

\* ------------------------------------------------ persistence: properties
JobEnded(j) == <<"end", j>> \in Range(wlog)

\* C1: once a flush() has returned that covers two jobs A then B submitted
\* to the same file, B the later one and written at offset 0, the file holds
\* exactly B's payload.
C1_FlushObservesLastWrite ==
    (/\ flush_covered >= 2
     /\ flush_covered = Len(submitted)
     /\ submitted[flush_covered - 1].cache_file = GoodPath
     /\ submitted[flush_covered].cache_file = GoodPath
     /\ submitted[flush_covered].offset = 0)
    => files[GoodPath] = submitted[flush_covered].data

\* C2: under fair scheduling every flush() that has posted its sentinel
\* eventually returns.
C2_FlushEventuallyReturns ==
    (fpc \in {"fl_notify", "fl_wait"}) ~> (fpc \notin {"fl_notify", "fl_wait"})

\* C3: file writes happen in submission order and never overlap: when a
\* job's write starts, the write of every job submitted before it has ended,
\* and nothing is logged between a write's start and its end.
C3_WritesInSubmissionOrder ==
    \A i \in 1..Len(wlog) :
        wlog[i][1] = "start" =>
            /\ \A a \in 1..(wlog[i][2] - 1) :
                   \E k \in 1..(i - 1) : wlog[k] = <<"end", a>>
            /\ i < Len(wlog) => wlog[i + 1] = <<"end", wlog[i][2]>>

\* Two jobs to the same file have both been written.
C3_Witness ==
    /\ Len(submitted) >= 2
    /\ submitted[1].cache_file = GoodPath
    /\ submitted[2].cache_file = GoodPath
    /\ JobEnded(1)
    /\ JobEnded(2)

\* C4: under fair scheduling the destructor, once entered, eventually
\* returns with the worker joined, and then the queue is empty and every
\* submitted job has been executed.
C4_TeardownCompletes ==
    /\ in_dtor ~> (fpc = "dead")
    /\ [](fpc = "dead" =>
            /\ wpc = "exited"
            /\ job_queue = <<>>
            /\ \A j \in 1..Len(submitted) : JobEnded(j))

\* ------------------------------------------------ cache: properties
\* C5: a lookup of a key that the last checkpoint persisted, issued when the
\* key is not in tier 1, is a tier-2 hit returning the host code originally
\* emitted for the block.
C5_PersistRoundTrip ==
    (last.op = "lookup" /\ last.pre_persisted /\ ~last.pre_in_l1) =>
        /\ last.level = "L2_PERSISTENT"
        /\ last.arm_code = HostCode(last.code)

\* C6: a lookup of a key that was stored and has been neither evicted nor
\* cleared since is a tier-1 hit whose entry carries the host address and
\* host size passed to that store.
C6_StoreThenLookup ==
    (last.op = "lookup" /\ last.pre_stored # NoStore) =>
        /\ last.found
        /\ last.level = "L1_MEMORY"
        /\ last.entry.arm_addr = last.pre_stored.arm_addr
        /\ last.entry.arm_size = last.pre_stored.arm_size

\* A key stored twice (the second time at a later arena address), then looked up.
C6_Witness ==
    /\ last.op = "lookup"
    /\ last.pre_stored # NoStore
    /\ last.pre_stored.arm_addr > 0
    /\ last.level = "L1_MEMORY"
    /\ last.entry.access_count > 1

\* C7: while the file's header magic, version or binary fingerprint is
\* damaged, no lookup returns a tier-2 hit and no lookup changes the file.
C7_IntegrityRejection ==
    [][(corrupted # "none" /\ lookups' = lookups + 1) =>
          (last'.level # "L2_PERSISTENT" /\ cache_file' = cache_file)]_vars

\* C8: tier 1 never holds more than MAX_L1_CACHE_ENTRIES entries, and while
\* only distinct keys have been inserted and none accessed again it holds
\* exactly the most recently inserted ones (all of them up to the capacity),
\* most recent first.
C8_Tier1Capacity ==
    /\ Len(l1_cache) <= MAX_L1_CACHE_ENTRIES
    /\ ~reaccessed =>
        /\ Len(l1_cache) = IF Len(ins_log) < MAX_L1_CACHE_ENTRIES
                           THEN Len(ins_log) ELSE MAX_L1_CACHE_ENTRIES
        /\ \A i \in 1..Len(l1_cache) :
               EntryKey(l1_cache[i]) = ins_log[Len(ins_log) - i + 1]

\* More distinct keys inserted than tier 1 holds, none accessed again.
C8_Witness ==
    /\ ~reaccessed
    /\ Len(ins_log) > MAX_L1_CACHE_ENTRIES
    /\ Len(l1_cache) = MAX_L1_CACHE_ENTRIES

KeysOf(l1) == { EntryKey(l1[i]) : i \in 1..Len(l1) }

\* The least recently used entry that is not hot; the least recently used
\* entry when every entry is hot.
LruVictim(l1) ==
    LET cold == { i \in 1..Len(l1) : l1[i].is_hot = FALSE }
    IN  IF cold = {} THEN Len(l1) ELSE CHOOSE i \in cold : \A j \in cold : j <= i

\* C9: a step that inserts a new key puts it in front of the old list, from
\* which it removed exactly the LruVictim when the list was full and nothing
\* otherwise; any other step keeps the set of keys, unless it clears tier 1.
C9_EvictionChoice ==
    [][IF l1_cache' # <<>> /\ EntryKey(l1_cache'[1]) \notin KeysOf(l1_cache)
       THEN Tail(l1_cache') =
                IF Len(l1_cache) >= MAX_L1_CACHE_ENTRIES
                THEN RemoveAt(l1_cache, LruVictim(l1_cache))
                ELSE l1_cache
       ELSE l1_cache' = <<>> \/ KeysOf(l1_cache') = KeysOf(l1_cache)]_vars

\* An insertion into a full tier 1 evicted a non-hot entry and kept the hot
\* entry that sits at the least recently used position.
C9_Witness ==
    /\ last.evicted # NoEntry
    /\ ~last.evicted.is_hot
    /\ Len(l1_cache) = MAX_L1_CACHE_ENTRIES
    /\ l1_cache[Len(l1_cache)].is_hot

\* C10: every tier-1 entry has is_hot = (access_count > HOT_THRESHOLD).
C10_HotFlagMatchesCount ==
    \A i \in 1..Len(l1_cache) :
        l1_cache[i].is_hot = (l1_cache[i].access_count > HOT_THRESHOLD)

\* C11: right after a store returns, tier 1 holds an entry for the stored
\* key with access_count 1 and is_hot false, whether or not the key was in
\* tier 1 before.
C11_StoreCreatesFreshEntry ==
    last.op = "store" =>
        \E i \in 1..Len(l1_cache) :
            /\ EntryKey(l1_cache[i]) = last.key
            /\ l1_cache[i].access_count = 1
            /\ l1_cache[i].is_hot = FALSE

\* ------------------------------------------------ the hit-then-promote runs
\* The blocks the hit-then-promote runs work on.
PromoBlocks == { b \in Blocks : b.x86_addr = 1 }

\* A lookup() call of a hit-then-promote run.
PromoLookup(bid, b) ==
    /\ lookups < MaxPromoLookups
    /\ LookupCall(bid, b)

PromoNext ==
    \/ \E b \in PromoBlocks : Store(b)
    \/ \E bid \in BinaryIds, b \in PromoBlocks : PromoLookup(bid, b)
    \/ Checkpoint
    \/ Clear

SpecPromotion == Init /\ [][PromoNext]_vars

\* C12: along lookup, store, lookup, checkpoint, clear, lookup, lookup on one
\* block that was neither cached nor persisted: the first lookup is
\* NOT_FOUND, the store leaves the block in tier 1, the second lookup is a
\* tier-1 hit, the third a tier-2 hit that puts the block back into tier 1,
\* the fourth a tier-1 hit.
C12_HitThenPromote ==
    LET inL1 == FindL1(l1_cache, promo.key[1], promo.key[2]) # 0
    IN  /\ promo.stage = 1 => last.level = "NOT_FOUND" /\ ~last.found
        /\ promo.stage = 2 => inL1
        /\ promo.stage = 3 => last.level = "L1_MEMORY" /\ last.found
        /\ promo.stage = 6 => last.level = "L2_PERSISTENT" /\ last.found /\ inL1
        /\ promo.stage = 7 => last.level = "L1_MEMORY" /\ last.found

\* The whole sequence has run, ending with the fourth lookup.
C12_Witness ==
    /\ promo.stage = 7
    /\ last.op = "lookup"
    /\ last.key = promo.key
    /\ l2_hits = 1

\* ------------------------------------------------ translator: properties
\* The first words of a file in the tier-2 layout: CACHE_MAGIC
\* (0x415243524F535345, little-endian, two 32-bit words), then the version.
MagicWords == <<"4F535345", "41524352">>
VersionWord == "00000001"

\* The header test of lookup_l2_cache and load_l2_cache on a file's words.
HasTier2Header(content) ==
    /\ Len(content) >= 3
    /\ content[1] = MagicWords[1]
    /\ content[2] = MagicWords[2]
    /\ content[3] = VersionWord

\* C13: once a checkpoint job of the run loop has been written, the file at
\* the binary's cache path starts with the tier-2 header (magic, version),
\* so it passes the integrity check when it is next opened.
C13_CheckpointFileHasLayout ==
    \A j \in 1..Len(submitted) :
        (submitted[j].cache_file = CachePath /\ JobEnded(j))
            => HasTier2Header(files[CachePath])

\* ------------------------------------------------ checkpoint and lookup: properties
\* The fields of the header and of the records that a checkpoint decides.
SameRecords(f, g) ==
    /\ f.entry_count = g.entry_count
    /\ Len(f.entries) = Len(g.entries)
    /\ \A i \in 1..Len(f.entries) :
        /\ i <= Len(g.entries)
        /\ f.entries[i].x86_addr = g.entries[i].x86_addr
        /\ f.entries[i].x86_hash = g.entries[i].x86_hash
        /\ f.entries[i].arm_offset = g.entries[i].arm_offset
        /\ f.entries[i].arm_size = g.entries[i].arm_size

\* C14: in every interleaving of checkpoint() with a lookup() of the same
\* binary that reaches tier 2 on another thread, the file on disk has the
\* entry count and the records (guest address, fingerprint, host offset, host
\* size) that the last checkpoint wrote.
C14_CheckpointSurvivesLookup ==
    ckpt_file.exists => SameRecords(cache_file, ckpt_file)

Counted == wpc = "finish" /\ wpc' = "loop"

\* C16: when write_to_file has failed for a job (the open or the write),
\* the worker adds 1 to failed_jobs, leaves completed_jobs alone, calls the
\* job's callback with false and returns to the head of its loop; and under
\* fair scheduling, after a failure the worker still gets to the end of every
\* job submitted.
C16_WriteFailureIsCounted ==
    /\ [][(Counted /\ ~wsuccess) =>
            /\ failed_jobs' = failed_jobs + 1
            /\ completed_jobs' = completed_jobs
            /\ wjob.callback = "user" => cb_log' = Append(cb_log, <<wjob.id, FALSE>>)
            /\ wjob.callback # "user" => cb_log' = cb_log
            /\ should_terminate' = should_terminate]_vars
    /\ (failed_jobs > 0) ~> (\A j \in 1..Len(submitted) : JobEnded(j))

\* A job failed at the open, a later one failed at the write, and a job
\* submitted after both was written.
C16_Witness ==
    /\ Len(submitted) = 3
    /\ submitted[1].cache_file = BadPath
    /\ submitted[2].cache_file = FullPath
    /\ submitted[3].cache_file = GoodPath
    /\ failed_jobs = 2
    /\ completed_jobs = 1
    /\ cb_log = << <<1, FALSE>>, <<2, FALSE>> >>
    /\ wpc # "exited"

\* ------------------------------------------------ maintenance: properties
\* C17: after a pass that started above max_cache_size the files left total
\* at most 80% of max_cache_size (5 * total <= 4 * max_cache_size, written
\* without the products); no removed file is newer than a file that was
\* kept; and a pass that started at or below max_cache_size removed nothing.
C17_MaintenanceBound ==
    /\ TotalSize(dir_before) > max_cache_size =>
         TotalSize(cache_dir) <=
             4 * (max_cache_size \div 5) + (4 * (max_cache_size % 5)) \div 5
    /\ \A r \in Range(removed), k \in cache_dir : r.time <= k.time
    /\ TotalSize(dir_before) <= max_cache_size => removed = <<>>

\* ------------------------------------------------ translator: properties
\* C18: find_or_translate_block never writes host code outside the arena:
\* the cursor stays within the arena and every block it returns lies inside
\* it (when the next block does not fit, the call returns null instead).
C18_ArenaNeverOverrun ==
    /\ ~oob
    /\ next_arm_offset <= ArenaSize
    /\ tr_entry # NullEntry => tr_entry.arm_addr + tr_entry.length <= ArenaSize

\* C19: the run loop dispatches no block at or beyond entry_point + size:
\* whenever a block has just been dispatched (the loop stands between the
\* dispatch and the advance of rip), rip lies below the end of the program.
C19_NoDispatchBeyondEnd ==
    tpc \in {"checkpoint", "advance"} => rip < entry_point + prog_size

\* The checkpoint jobs queued so far.
CheckpointJobs == { j \in 1..Len(submitted) : submitted[j].cache_file = CachePath }

\* The dispatches of address a so far.
Dispatches(a) == { i \in 1..Len(dispatch_log) : dispatch_log[i] = a }

\* C20: checkpoint_cache is called after the dispatches numbered
\* CHECKPOINT_EVERY, 2 * CHECKPOINT_EVERY, ... and after no other, each call
\* queues one write job; a block's execution counter equals the number of
\* times it was dispatched; and the run loop, once at the checkpoint, gets
\* past it however slow the worker is at writing.
C20_CheckpointEveryNth ==
    /\ [](/\ ckpt_log = [k \in 1..Len(ckpt_log) |-> k * CHECKPOINT_EVERY]
          /\ Len(ckpt_log) = (Len(dispatch_log) \div CHECKPOINT_EVERY)
                                - (IF tpc = "checkpoint" THEN 1 ELSE 0)
          /\ Cardinality(CheckpointJobs) = Len(ckpt_log)
          /\ DOMAIN execution_count = Range(dispatch_log)
          /\ \A a \in DOMAIN execution_count :
                execution_count[a] = Cardinality(Dispatches(a)))
    /\ (tpc = "checkpoint") ~> (tpc \in {"find", "flush"})

\* Two checkpoints were queued, the second after the fourth dispatch, and the
\* run loop has gone on while the worker has written neither.
C20_Witness ==
    /\ ckpt_log = <<CHECKPOINT_EVERY, 2 * CHECKPOINT_EVERY>>
    /\ Len(job_queue) = 2
    /\ wlog = <<>>
    /\ tpc \in {"find", "flush"}

\* ------------------------------------------------ decoder: properties
\* The bytes the instruction at `offset` needs, by its opcode's definition
\* flags and the mod and rm fields of its ModR/M byte; when the ModR/M byte
\* itself is missing, the two bytes known to be needed.
RequiredLength(code, offset) ==
    LET opcode == code[offset + 1]
        def == x86_defs[opcode]
        modrm == code[offset + 2]
        mod == (modrm \div 64) % 4
        rm == modrm % 8
        imm == IF def.has_immediate THEN 4 ELSE 0
    IN  IF opcode \notin DOMAIN x86_defs THEN 1
        ELSE IF ~def.has_modrm THEN 1 + imm
        ELSE IF offset + 2 > Len(code) THEN 2
        ELSE 2 + (IF def.has_sib /\ mod # 3 /\ rm = 4 THEN 1 ELSE 0)
               + (IF def.has_displacement
                  THEN IF mod = 1 THEN 1 ELSE IF mod = 2 THEN 4 ELSE 0
                  ELSE 0)
               + imm

\* C21: decode_x86_instruction returns length 0 whenever a byte the
\* instruction needs lies at or beyond the end of the slice, and a positive
\* length only when all of them are inside.
C21_TruncatedDecodesToZero ==
    dc_args.op = "decode" =>
        IF \/ dc_args.offset >= Len(dc_args.code)
           \/ dc_args.offset + RequiredLength(dc_args.code, dc_args.offset)
                 > Len(dc_args.code)
        THEN dc_ret.length = 0
        ELSE dc_ret.length = RequiredLength(dc_args.code, dc_args.offset)

RECURSIVE Closure(_, _, _)
\* S closed k times under "the instruction at b ends where the next starts".
Closure(code, S, k) ==
    IF k = 0 THEN S
    ELSE Closure(code,
                 S \cup { b + decode_x86_instruction(code, b).length :
                              b \in { x \in S : x < Len(code) } },
                 k - 1)

\* The offsets at which an instruction starts when `code` is decoded from
\* offset 0 to its end.
Boundaries(code) == Closure(code, {0}, Len(code))

\* The block length the instruction boundaries determine: through the first
\* terminator opcode standing at a boundary, else all bytes up to the first
\* offset at which nothing decodes (the end of the slice).
BlockEnd(code) ==
    LET B == Boundaries(code)
        T == { b \in B : b < Len(code) /\ code[b + 1] \in Terminators }
        first == CHOOSE b \in T : \A c \in T : b <= c
    IN  IF T = {} THEN Len(code)
        ELSE first + decode_x86_instruction(code, first).length

\* C22: analyze_x86_block returns the bytes through the first terminator
\* (C3, E8, E9) decoded at an instruction boundary, or the bytes consumed
\* before the first decode failure; never more than the slice holds; 11 for
\* the sample program.
C22_BlockEndsAtFirstTerminator ==
    dc_args.op = "analyze" =>
        /\ dc_ret = BlockEnd(dc_args.code)
        /\ dc_ret <= Len(dc_args.code)
        /\ dc_args.code = ExampleBlock => dc_ret = 11

\* A block whose first terminator byte is a ModR/M byte and whose end is the
\* terminator after it, and the sample program.
C22_Witness ==
    /\ dc_args.op = "analyze"
    /\ \/ dc_args.code = ExampleBlock /\ dc_ret = 11
       \/ dc_args.code = <<137, 195, 144, 195, 144>> /\ dc_ret = 4

\* C23: translate_x86_instruction always returns: the host words of the
\* first rule, in table order, whose opcode is the instruction's; and the
\* single word D503201F when no rule has that opcode.
C23_FirstRuleOrNop ==
    dc_args.op = "translate" =>
        LET rules == dc_args.rules
            opcode == dc_args.code[1]
            M == { i \in 1..Len(rules) : rules[i].x86_opcode = opcode }
        IN  /\ M # {} =>
                \E i \in M : (\A j \in M : i <= j) /\ dc_ret = rules[i].arm_opcodes
            /\ M = {} => dc_ret = <<"D503201F">>

\* A table with two rules for one opcode, answered by the first; and opcode
\* FE against the default table.
C23_Witness ==
    /\ dc_args.op = "translate"
    /\ \/ /\ dc_args.rules = <<Rule(195, <<"AA0003E0">>), Rule(195, <<>>)>>
          /\ dc_args.code = <<195>>
          /\ dc_ret = <<"AA0003E0">>
       \/ /\ dc_args.rules = DefaultRules
          /\ dc_args.code = <<254>>
          /\ dc_ret = <<"D503201F">>

\* ------------------------------------------------ signatures: properties
\* The reference bytes of a signature: the bytes its fingerprint was
\* computed from.
Reference(sig) == sig.hash[2]

\* The stored signatures that qualify for `code`: same byte length, and the
\* masked similarity of code and reference at least the threshold.
Qualifying(db, code) ==
    { h \in DOMAIN db :
        /\ db[h].size = Len(code)
        /\ AtLeast(compare_blocks_with_mask(code, Reference(db[h]), db[h].mask),
                   db[h].similarity_threshold) }

\* C24: with an empty memo and no exact fingerprint match, find_match returns
\* a hit, for a qualifying signature, exactly when some stored signature of
\* the same length has masked similarity >= its threshold (4 of 5 against
\* 0.8 included), and no hit otherwise.
C24_FuzzyHitIffQualifies ==
    [][(/\ sg_last'.op = "find"
        /\ match_cache = <<>>
        /\ calculate_hash(sg_last'.code) \notin DOMAIN signature_db)
       => /\ sg_last'.hit <=> Qualifying(signature_db, sg_last'.code) # {}
          /\ sg_last'.hit =>
                sg_last'.sig.hash \in Qualifying(signature_db, sg_last'.code)]_vars

\* C25: the store holds one signature per fingerprint; add_signature(s)
\* replaces the entry of s's fingerprint, leaves every other stored signature
\* as it was, and afterwards the entry of that fingerprint is s.
C25_AddReplacesOnlyItsFingerprint ==
    [][sg_last'.op = "add" =>
         LET s == sg_last'.sig
         IN  /\ DOMAIN signature_db' = DOMAIN signature_db \cup {s.hash}
             /\ signature_db'[s.hash] = s
             /\ \A h \in DOMAIN signature_db \ {s.hash} :
                   signature_db'[h] = signature_db[h]
             /\ \A h \in DOMAIN signature_db' : signature_db'[h].hash = h]_vars

\* An add_signature that replaced a different signature of the same
\* fingerprint while another signature was stored.
C25_Witness ==
    /\ sg_last.op = "add"
    /\ sg_last.prior
    /\ sg_last.sig.mask = <<1, 1, 0, 0, 1>>
    /\ sg_last.sig.similarity_threshold = 90
    /\ signature_db[sg_last.sig.hash] = sg_last.sig
    /\ Cardinality(DOMAIN signature_db) = 2

\* C28: every signature in the store, whichever way it came in
\* (add_signature, the static analyser at load_binary, load_signatures), has
\* a mask as long as its byte length.
C28_MaskLengthIsSize ==
    \A h \in DOMAIN signature_db :
        Len(signature_db[h].mask) = signature_db[h].size

\* C26: for a non-empty list generate_mask returns a mask as long as the
\* first variant; when some variant has another length the mask is all
\* zeros; otherwise position i is 1 exactly when every variant holds the
\* first variant's byte at i.
C26_MaskMarksCommonBytes ==
    (dc_args.op = "generate_mask" /\ dc_args.code # <<>>) =>
        LET V == dc_args.code
            n == Len(V[1])
        IN  /\ Len(dc_ret) = n
            /\ \A i \in 1..n :
                 dc_ret[i] =
                    IF \E k \in 1..Len(V) : Len(V[k]) # n THEN 0
                    ELSE IF \A k \in 1..Len(V) : V[k][i] = V[1][i] THEN 1
                    ELSE 0

\* Three variants of two bytes that agree in the first byte only; and a list
\* whose third variant is shorter.
C26_Witness ==
    /\ dc_args.op = "generate_mask"
    /\ \/ /\ dc_args.code = << <<85, 85>>, <<85, 85>>, <<85, 144>> >>
          /\ dc_ret = <<1, 0>>
       \/ /\ dc_args.code = << <<85, 85>>, <<85, 85>>, <<85>> >>
          /\ dc_ret = <<0, 0>>

\* C29: the masked similarity of a byte sequence with itself, under a mask of
\* its length, is 1 when the mask has a position equal to 1 and 0 when it has
\* none.
C29_SelfSimilarity ==
    (/\ dc_args.op = "compare"
     /\ dc_args.code[1] = dc_args.code[2]
     /\ Len(dc_args.code[3]) = Len(dc_args.code[1])) =>
        IF \E i \in 1..Len(dc_args.code[3]) : dc_args.code[3][i] = 1
        THEN dc_ret[1] = dc_ret[2]
        ELSE dc_ret[1] = 0

\* A self-comparison under a mask with one significant position and one
\* byte 2, and one under a mask of bytes 0 and 2 only.
C29_Witness ==
    /\ dc_args.op = "compare"
    /\ dc_args.code[1] = <<85, 144>>
    /\ dc_args.code[2] = <<85, 144>>
    /\ \/ dc_args.code[3] = <<1, 2>> /\ dc_ret = <<1, 1>>
       \/ dc_args.code[3] = <<0, 2>> /\ dc_ret = <<0, 1>>

\* C27: every signature identify_patterns emits describes a byte sequence of
\* at least min_pattern_length bytes that occurs in at least three distinct
\* input blocks, has threshold 0.9, and a mask as long as the sequence.
C27_PatternInThreeBlocks ==
    dc_args.op = "identify_patterns" =>
        \A sig \in dc_ret :
            /\ Len(Reference(sig)) >= min_pattern_length
            /\ sig.size = Len(Reference(sig))
            /\ Cardinality({ j \in 1..Len(dc_args.code) :
                               Matches(dc_args.code[j], Reference(sig)) # {} }) >= 3
            /\ sig.similarity_threshold = 90
            /\ Len(sig.mask) = sig.size

\* ------------------------------------------------ hash: properties
\* C30: after XXH64_reset and XXH64_update on the chunks of any partition of
\* a byte sequence, XXH64_digest equals the one-shot XXH64 of the sequence
\* with the same seed.
C30_StreamingEqualsOneShot ==
    xxh_input.reset =>
        XXH64_digest(xxh_state) = XXH64(xxh_input.bytes, xxh_seed)

\* More than two stripes fed in several chunks, one of them across a stripe
\* boundary, with bytes left in the buffer.
C30_Witness ==
    /\ xxh_input.reset
    /\ xxh_input.chunks >= 3
    /\ xxh_input.straddled
    /\ Len(xxh_input.bytes) = 69
    /\ xxh_state.memsize = 5
    /\ XXH64_digest(xxh_state) = XXH64(xxh_input.bytes, xxh_seed)

\* XXH64 of no bytes with seed 0 is EF46DB3751D8E999.
HashOfEmpty ==
    XXH64(<<>>, Word(0)) = <<153, 233, 216, 81, 55, 219, 70, 239>>

\* ------------------------------------------------ tier-1 hit: properties
\* C31: a lookup answered from tier 1 adds 1 to the matched entry's access
\* count, puts that entry at the front, adds 1 to l1_hits, and keeps the
\* number of entries and, in their old order and unchanged, all other
\* entries.
C31_Tier1HitFrame ==
    [][(lookups' = lookups + 1 /\ last'.level = "L1_MEMORY") =>
        /\ l1_hits' = l1_hits + 1
        /\ Len(l1_cache') = Len(l1_cache)
        /\ \E i \in 1..Len(l1_cache) :
            /\ EntryKey(l1_cache[i]) = last'.key
            /\ EntryKey(l1_cache'[1]) = last'.key
            /\ l1_cache'[1].access_count = l1_cache[i].access_count + 1
            /\ Tail(l1_cache') = RemoveAt(l1_cache, i)
      ]_vars

\* A tier-1 hit on the entry behind a more recently stored one: the entry hit
\* is in front, with its insertion and this hit as its only accesses.
C31_Witness ==
    /\ last.op = "lookup"
    /\ last.level = "L1_MEMORY"
    /\ l1_hits = 1
    /\ Len(l1_cache) = 2
    /\ EntryKey(l1_cache[1]) = last.key
    /\ l1_cache[1].access_count = 2
    /\ l1_cache[2].arm_addr > l1_cache[1].arm_addr

\* ------------------------------------------------ accepted jobs: properties
\* The jobs whose write_to_file call has returned and which the worker has
\* counted: every job with an "end" in wlog, but for the one in flight.
CountedJobs ==
    { j \in 1..Len(submitted) : JobEnded(j) /\ ~(wpc = "finish" /\ wjob.id = j) }

\* The entries of cb_log that belong to job j.
CallbacksOf(j) == { i \in 1..Len(cb_log) : cb_log[i][1] = j }

\* Every accepted job has been written, counted and, if it has a callback,
\* called back.
AllJobsDone == CountedJobs = 1..Len(submitted)

\* C32: under fair scheduling every job queue_write accepted is eventually
\* executed; at all times the jobs counted in completed_jobs and failed_jobs
\* together are exactly the jobs whose write has returned, each once; and a
\* job's callback has run once if its write has returned and been counted,
\* and not at all before.
C32_AcceptedJobsAreExecuted ==
    /\ []<>AllJobsDone
    /\ [](/\ completed_jobs + failed_jobs = Cardinality(CountedJobs)
          /\ \A j \in 1..Len(submitted) :
                Cardinality(CallbacksOf(j)) =
                    IF j \in CountedJobs /\ submitted[j].callback = "user"
                    THEN 1 ELSE 0)

\* The worker was blocked in condition.wait with an empty queue and has since
\* executed three jobs, one of which failed; it is blocked again.
C32_Witness ==
    /\ Len(submitted) = 3
    /\ AllJobsDone
    /\ completed_jobs = 2
    /\ failed_jobs = 1
    /\ Len(cb_log) = 2
    /\ wpc = "blocked"
    /\ cv_waiting
    /\ fpc = "idle"

\* ------------------------------------------------ write_to_file: properties
\* The content a file must have after a job: the payload alone for offset 0;
\* for offset > 0 the payload at [offset, offset + length), every other byte
\* of the old content where it was, and zero in a gap between the old end
\* and the offset (an absent file counts as empty).
ContentAfter(content, job) ==
    LET old == IF content = Absent THEN <<>> ELSE content
        end == job.offset + Len(job.data)
    IN  IF job.offset = 0 THEN job.data
        ELSE [i \in 1..(IF Len(old) > end THEN Len(old) ELSE end) |->
                IF i > job.offset /\ i <= end THEN job.data[i - job.offset]
                ELSE IF i <= Len(old) THEN old[i]
                ELSE 0]

RECURSIVE Replayed(_)
\* The content of GoodPath after the first k submitted jobs, one after the
\* other.
Replayed(k) == IF k = 0 THEN Absent ELSE ContentAfter(Replayed(k - 1), submitted[k])

NoAnswerInFile(f, k) ==
    \/ ~f.exists
    \/ f.magic # CACHE_MAGIC
    \/ f.version # CACHE_VERSION
    \/ \A i \in 1..Len(f.entries) : EntryKey(f.entries[i]) # k

\* C34: a lookup of a key that is not in tier 1, made when the cache file is
\* absent, has a wrong magic or version, or has no record for the key,
\* returns NOT_FOUND with found = FALSE, adds 1 to misses and to nothing
\* else, and leaves tier 1 and the file as they were.
C34_MissLeavesCacheAlone ==
    [][(/\ lookups' = lookups + 1
        /\ last'.key \notin KeysOf(l1_cache)
        /\ NoAnswerInFile(cache_file, last'.key)) =>
        /\ ~last'.found
        /\ last'.level = "NOT_FOUND"
        /\ misses' = misses + 1
        /\ l1_hits' = l1_hits
        /\ l2_hits' = l2_hits
        /\ l1_cache' = l1_cache
        /\ cache_file' = cache_file
      ]_vars

\* A lookup found the record of its key in a file whose header had been
\* damaged, and missed; tier 1 holds another key.
C34_Witness ==
    /\ last.op = "lookup"
    /\ last.level = "NOT_FOUND"
    /\ corrupted \in {"magic", "version"}
    /\ \E i \in 1..Len(cache_file.entries) : EntryKey(cache_file.entries[i]) = last.key
    /\ l1_cache # <<>>
    /\ misses = 1

\* ------------------------------------------------ load_binary: properties
\* C36: after load_binary the facade's current_binary_id is a key of the
\* cache's binary_cache_map.
C36_FacadeIdIsRegistered ==
    (dc_args.op = "load_binary" /\ dc_ret.loaded) =>
        dc_ret.current_binary_id \in DOMAIN dc_ret.binary_cache_map

\* ------------------------------------------------ returned entries: properties
\* The host code of the guest block at address a.
HostCodeAt(a) == TranslateBlock(AnalyzeBlock(x86_memory, a - entry_point))

\* The entry e lies inside the arena and the arena holds there the host
\* code of e's guest block.
ResidesInArena(e) ==
    /\ e.arm_addr >= 0
    /\ e.arm_addr + e.length <= ArenaSize
    /\ SubSeq(arm_memory, e.arm_addr + 1, e.arm_addr + e.length) = HostCodeAt(e.x86_addr)

\* C35: every entry find_or_translate_block returns, from a tier-1 hit, a
\* tier-2 hit or a fresh translation, carries an address inside the arena at
\* which the host code of its block resides.
C35_ReturnedEntryResidesInArena ==
    tr_entry # NullEntry => ResidesInArena(tr_entry)

\* ------------------------------------------------ tier-1 keys: properties
\* C37: tier 1 holds at most one entry per key (guest address, fingerprint),
\* whatever stores, lookups, promotions from tier 2 and evictions came before.
C37_OneEntryPerKey ==
    \A i, j \in 1..Len(l1_cache) :
        EntryKey(l1_cache[i]) = EntryKey(l1_cache[j]) => i = j

\* A block was promoted from tier 2 into a full tier 1, which evicted an
\* entry to make room for it.
C37_Witness ==
    /\ last.op = "lookup"
    /\ last.level = "L2_PERSISTENT"
    /\ last.evicted # NoEntry
    /\ Len(l1_cache) = MAX_L1_CACHE_ENTRIES
    /\ EntryKey(l1_cache[1]) = last.key

\* ------------------------------------------------ statistics: properties
\* The keys held in tier 1.
KeysInL1(l1) == { EntryKey(l1[i]) : i \in 1..Len(l1) }

\* A completed lookup raises the counter of the tier it reports by one and
\* leaves the other two alone.
CountsOnce ==
    /\ l1_hits' = l1_hits + (IF last'.level = "L1_MEMORY" THEN 1 ELSE 0)
    /\ l2_hits' = l2_hits + (IF last'.level = "L2_PERSISTENT" THEN 1 ELSE 0)
    /\ misses' = misses + (IF last'.level = "NOT_FOUND" THEN 1 ELSE 0)
    /\ last'.op = "lookup"

\* C38: every completed lookup raises exactly one of l1_hits, l2_hits and
\* misses by one, no other call changes them except clear(), which zeroes
\* all three, so their sum is the number of lookups completed since
\* construction or the last clear(); and the entry count get_stats reports
\* is the number of keys tier 1 holds.
C38_OneCounterPerLookup ==
    [][/\ lookups' = lookups + 1 => CountsOnce
       /\ lookups' = lookups =>
            \/ UNCHANGED <<l1_hits, l2_hits, misses>>
            \/ (l1_hits' = 0 /\ l2_hits' = 0 /\ misses' = 0 /\ l1_cache' = <<>>)
       /\ get_stats'.entry_count = Cardinality(KeysInL1(l1_cache'))
       /\ get_stats'.l1_hit_count + get_stats'.l2_hit_count + get_stats'.miss_count
            <= lookups']_vars

\* After a lookup and a clear(), three more lookups: a tier-1 hit, a tier-2
\* hit and a miss, reported with one entry in tier 1.
C38_Witness ==
    /\ lookups = 4
    /\ get_stats = [l1_hit_count |-> 1, l2_hit_count |-> 1, miss_count |-> 1,
                    entry_count |-> 1]
    /\ last.op = "lookup"

\* ------------------------------------------------ memoised matches: properties
\* C39: find_match(bytes) returns (true, s) only if s is in the store and
\* either s's fingerprint is that of bytes or s has the length of bytes and
\* the masked similarity of bytes to s is at least s's threshold as stored
\* now; so a memoised match is not returned once its signature was replaced
\* by one that no longer matches.
C39_MatchIsCurrentAndQualifies ==
    (sg_last.op = "find" /\ sg_last.hit) =>
        LET s == sg_last.sig
        IN  /\ s.hash \in DOMAIN signature_db
            /\ signature_db[s.hash] = s
            /\ \/ s.hash = calculate_hash(sg_last.code)
               \/ s.hash \in Qualifying(signature_db, sg_last.code)

\* ------------------------------------------------ streaming state: properties
\* C40: after XXH64_reset and any sequence of XXH64_update calls the state
\* buffers fewer than 32 bytes, total_len is the sum of the lengths
\* appended, and total_len - memsize is a multiple of 32: the bytes consumed
\* in whole stripes.
C40_BufferBelowStripe ==
    xxh_input.reset =>
        /\ xxh_state.memsize < 32
        /\ Len(xxh_state.mem) = xxh_state.memsize
        /\ xxh_state.total_len = Len(xxh_input.bytes)
        /\ (xxh_state.total_len - xxh_state.memsize) % 32 = 0
        /\ xxh_state.mem =
              SubSeq(xxh_input.bytes,
                     xxh_state.total_len - xxh_state.memsize + 1,
                     xxh_state.total_len)

\* One byte short of two stripes, fed in at least three chunks of which one
\* ran across the stripe boundary: 31 bytes are buffered.
C40_Witness ==
    /\ xxh_input.reset
    /\ xxh_input.chunks >= 3
    /\ xxh_input.straddled
    /\ xxh_state.total_len = 63
    /\ xxh_state.memsize = 31

====
